---- MODULE Spec2Model ----
(***************************************************************************)
(* LSDAMM native mesh core: the SWIM membership engine (swim_gossip.c),    *)
(* the leader-election coordinator (node_coordinator.c) and the            *)
(* multi-instance manager with its UDP port pool (node_manager.c).         *)
(*                                                                         *)
(* An engine together with the coordinator registered on it is one record  *)
(* S = [swim, coord, tx, events, rnd, relock]: swim and coord hold the     *)
(* fields of swim_context_t and node_coordinator_t, tx collects the        *)
(* datagrams the operation in progress hands to sendto(), events the calls *)
(* it makes to ctx->on_node_event, rnd is the value rand() yields to it,   *)
(* relock what locking ctx->lock does to it when it holds the lock already *)
(* (undefined for the default mutex that swim_init makes: TRUE, the lock   *)
(* admits its owner again; FALSE, the thread blocks for good).  Every C    *)
(* function is an operator from S                                          *)
(* to S, so that a callback chain (state change -> on_node_event ->        *)
(* coordinator_start_election -> swim_set_main_node) is one evaluation.    *)
(***************************************************************************)
EXTENDS Integers, Sequences, FiniteSets, TLC

VARIABLES
    now,            \* the clock, in ms: time(NULL) = now \div 1000, get_time_ms() = now
    inst,           \* engine id -> S, the engines of the process(es)
    wake,           \* engine id -> the time the worker's usleep() ends
    crashed,        \* the engines whose process has been killed
    net,            \* datagrams in flight between engines
    sync_counter,   \* static int sync_counter of swim_gossip_round: one to a
                    \* process, shared by the engines that run in it
    observed,       \* history: engine id -> the node ids it has been given
    silenced,       \* history: ids from or about which no frame arrives any more
    calls,          \* history: engine id -> API calls made on it
    mgr,            \* the node manager (node_manager_t)
    trial           \* history: the inputs and results of the operation last tried

vars == <<now, inst, wake, crashed, net, sync_counter, observed, silenced, calls,
          mgr, trial>>

----------------------------------------------------------------------------
(* Program constants *)

NODE_STATE_ALIVE == 0
NODE_STATE_SUSPECT == 1
NODE_STATE_DEAD == 2
NODE_STATE_LEFT == 3

SWIM_MSG_PING == 0
SWIM_MSG_PING_REQ == 1
SWIM_MSG_ACK == 2
SWIM_MSG_SYNC == 3

SWIM_DEFAULT_INTERVAL == 1000
SWIM_PROBE_TIMEOUT == 500
SWIM_SUSPECT_TIMEOUT == 5000
SYNC_EVERY == 5
SYNC_MAX_NODES == 50

COORD_STATE_FOLLOWER == 0
COORD_STATE_CANDIDATE == 1
COORD_STATE_LEADER == 2

ELECTION_TIMEOUT_BASE == 150
ELECTION_TIMEOUT_SPREAD == 150

MAX_NODES_PER_SERVER == 16
DEFAULT_PORT_RANGE_START == 7946
DEFAULT_PORT_RANGE_SIZE == 100
UINT16_RANGE == 65536

----------------------------------------------------------------------------
(* Bounds of the model *)

MaxTime == 1        \* the clock of the engine on its own stops after MaxTime seconds
DetectTime == 6     \* the clock of the failure-detection runs stops after DetectTime seconds
MaxRecv == 1        \* datagrams an engine handles
MaxCalls == 2       \* calls of the engine's API (join, leave, set_main)
MaxInstances == 2   \* instances the manager is asked to own at a time

\* The instants at which the clock is looked at are 0, 1, 5, 6, 10, 11, ... s:
\* they put a staleness on either side of both timeouts (1 s > 500 ms,
\* 5 s = 5000 ms, 6 s > 5000 ms).
ClockStep(t) == IF (t \div 1000) % 5 = 1 THEN 4000 ELSE 1000

Engines == {"a", "b", "c"}

\* The endpoint (address, port) an engine's socket is bound to is named by
\* the engine's id; join(address, port) names its seed "seed-<addr>:<port>".
SeedId(ep) == "seed-" \o ep

\* time(NULL)
TimeNow == now \div 1000

\* An invalid state byte a Sync record may carry ((swim_node_state_t)uint8_t)
BadStateByte == 7

----------------------------------------------------------------------------
(* swim_gossip.c *)

swim_create_node(id, address) ==
    [id |-> id, address |-> address, state |-> NODE_STATE_ALIVE,
     incarnation |-> 1, last_seen |-> TimeNow,
     is_local |-> FALSE, is_main_node |-> FALSE]

\* S, once the operation that yields it has been carried out: TLC evaluates
\* the test, and with it S, before it goes on to T.
AndThen(S, T) == IF S.rnd = S.rnd THEN T ELSE S

\* Index of the first node of the list with this id, 0 for NULL.
swim_find_node(S, id) ==
    LET hit == {i \in 1..Len(S.swim.nodes) : S.swim.nodes[i].id = id}
    IN  IF hit = {} THEN 0 ELSE CHOOSE i \in hit : \A j \in hit : i <= j

\* Index of the first node with is_local, 0 for NULL.
swim_get_local_node(S) ==
    LET hit == {i \in 1..Len(S.swim.nodes) : S.swim.nodes[i].is_local}
    IN  IF hit = {} THEN 0 ELSE CHOOSE i \in hit : \A j \in hit : i <= j

swim_get_node_count(S, state) ==
    Cardinality({i \in 1..Len(S.swim.nodes) : S.swim.nodes[i].state = state})

\* A set_main that raises the incarnation only when the flag is set.
swim_set_main_node_raise_only(S, is_main) ==
    LET S1 == [S EXCEPT !.swim.is_main_node = is_main]
        local == swim_get_local_node(S1)
    IN  IF local # 0
        THEN [S1 EXCEPT !.swim.nodes[local].is_main_node = is_main,
                        !.swim.incarnation = IF is_main THEN @ + 1 ELSE @]
        ELSE S1

swim_set_main_node(S, is_main) ==
    LET S1 == [S EXCEPT !.swim.is_main_node = is_main]
        local == swim_get_local_node(S1)
    IN  IF local # 0
        THEN [S1 EXCEPT !.swim.nodes[local].is_main_node = is_main,
                        !.swim.incarnation = @ + 1]
        ELSE S1

\* node_coordinator.c: the leader branch shared by start_election and the
\* candidate tick.
coordinator_become_leader(S) ==
    LET S1 == [S EXCEPT !.coord.state = COORD_STATE_LEADER]
        local == swim_get_local_node(S1)
        S2 == IF local # 0
              THEN swim_set_main_node(
                       [S1 EXCEPT !.coord.leader_id = S1.swim.nodes[local].id], TRUE)
              ELSE S1
    IN  [S2 EXCEPT !.coord.is_main_node = TRUE,
                   !.coord.become_leader_calls = @ + 1]

\* An election that keeps the term of the election before it when the
\* coordinator is a Candidate already.
coordinator_start_election_same_term(S) ==
    LET S1 == [S EXCEPT !.coord.term =
                            IF S.coord.state = COORD_STATE_CANDIDATE THEN @ ELSE @ + 1,
                        !.coord.state = COORD_STATE_CANDIDATE,
                        !.coord.votes_received = 1,
                        !.coord.election_timeout =
                            now + ELECTION_TIMEOUT_BASE + S.rnd]
    IN  IF swim_get_node_count(S1, NODE_STATE_ALIVE) <= 1
        THEN coordinator_become_leader(S1)
        ELSE S1

\* An election that waits for votes however few nodes are Alive.
coordinator_start_election_contested(S) ==
    [S EXCEPT !.coord.state = COORD_STATE_CANDIDATE,
              !.coord.term = @ + 1,
              !.coord.votes_received = 1,
              !.coord.election_timeout = now + ELECTION_TIMEOUT_BASE + S.rnd]

coordinator_start_election(S) ==
    LET S1 == [S EXCEPT !.coord.state = COORD_STATE_CANDIDATE,
                        !.coord.term = @ + 1,
                        !.coord.votes_received = 1,
                        !.coord.election_timeout =
                            now + ELECTION_TIMEOUT_BASE + S.rnd]
    IN  IF S1.swim.deadlocked
        THEN [S1 EXCEPT !.coord.blocked = TRUE]   \* in swim_get_node_count
        ELSE IF S1.swim.locked /\ ~S1.relock
        \* swim_get_node_count locks ctx->lock, which this thread holds
        THEN [S1 EXCEPT !.swim.deadlocked = TRUE, !.coord.blocked = TRUE]
        ELSE IF swim_get_node_count(S1, NODE_STATE_ALIVE) <= 1
        THEN coordinator_become_leader(S1)
        ELSE S1

\* A callback that begins an election at every event about the leader,
\* whatever the new state.
on_node_event_any_state(S, id, old_state, new_state) ==
    IF id = S.coord.leader_id THEN coordinator_start_election(S) ELSE S

\* node_coordinator.c on_node_event, reached through ctx->on_node_event.
on_node_event(S, id, old_state, new_state) ==
    IF id = S.coord.leader_id /\ new_state # NODE_STATE_ALIVE
    THEN coordinator_start_election(S)
    ELSE S

\* ctx->on_node_event(node, old_state, new_state, ...), when one is set;
\* events lists the calls the operation in progress has made, each with
\* the state that the node's record holds as the call is made.
swim_fire_node_event(S, id, old_state, new_state) ==
    IF S.swim.on_node_event
    THEN on_node_event(
             [S EXCEPT !.events =
                 Append(@, <<id, old_state, new_state,
                             S.swim.nodes[swim_find_node(S, id)].state>>)],
             id, old_state, new_state)
    ELSE S

swim_update_node_state(S, i, new_state) ==
    LET old_state == S.swim.nodes[i].state
    IN  IF old_state = new_state
        THEN S
        ELSE swim_fire_node_event(
                 [S EXCEPT !.swim.nodes[i].state = new_state],
                 S.swim.nodes[i].id, old_state, new_state)

swim_add_node(S, node) ==
    LET i == swim_find_node(S, node.id)
    IN  IF i # 0
        THEN LET S1 == [S EXCEPT !.swim.nodes[i].incarnation = node.incarnation,
                                 !.swim.nodes[i].last_seen = node.last_seen]
             IN  IF S1.swim.nodes[i].state # node.state
                 THEN swim_update_node_state(S1, i, node.state)
                 ELSE S1
        ELSE swim_fire_node_event(
                 [S EXCEPT !.swim.nodes = <<node>> \o @,
                           !.swim.node_count = @ + 1],
                 node.id, NODE_STATE_DEAD, NODE_STATE_ALIVE)

\* sendto() on the engine's socket: the datagram leaves for `address`.
swim_sendto(S, address, frame) ==
    [S EXCEPT !.tx = Append(@, [to |-> address, from |-> S.swim.endpoint,
                                frame |-> frame]),
              !.swim.messages_sent = @ + 1]

Frame(type, seq, S, target_id, source_id, updates) ==
    [type |-> type, seq_num |-> seq, sender_id |-> S.swim.local_id,
     incarnation |-> S.swim.incarnation, target_id |-> target_id,
     source_id |-> source_id, updates |-> updates]

swim_send_ping(S, t) ==
    LET S1 == [S EXCEPT !.swim.seq_num = @ + 1]
    IN  swim_sendto(S1, S1.swim.nodes[t].address,
            Frame(SWIM_MSG_PING, S1.swim.seq_num, S1,
                  S1.swim.nodes[t].id, "", <<>>))

swim_send_ack(S, t, seq) ==
    swim_sendto(S, S.swim.nodes[t].address,
        Frame(SWIM_MSG_ACK, seq, S, S.swim.nodes[t].id, "", <<>>))

NodeUpdate(node) ==
    [id |-> node.id, address |-> node.address, state |-> node.state,
     incarnation |-> node.incarnation, is_main_node |-> node.is_main_node]

swim_send_sync(S, t) ==
    LET S1 == [S EXCEPT !.swim.seq_num = @ + 1]
        n == IF Len(S1.swim.nodes) < SYNC_MAX_NODES
             THEN Len(S1.swim.nodes) ELSE SYNC_MAX_NODES
        updates == [k \in 1..n |-> NodeUpdate(S1.swim.nodes[k])]
    IN  swim_sendto(S1, S1.swim.nodes[t].address,
            Frame(SWIM_MSG_SYNC, S1.swim.seq_num, S1, "", "", updates))

\* The Sync loop's body without its guard on the local id.
swim_merge_update_unguarded(S, u) ==
    LET i == swim_find_node(S, u.id)
    IN  IF i = 0
        THEN swim_add_node(S,
                 [swim_create_node(u.id, u.address) EXCEPT
                     !.state = u.state,
                     !.incarnation = u.incarnation,
                     !.is_main_node = u.is_main_node])
        ELSE IF u.incarnation > S.swim.nodes[i].incarnation
             THEN LET S1 == [S EXCEPT
                              !.swim.nodes[i].incarnation = u.incarnation,
                              !.swim.nodes[i].is_main_node = u.is_main_node]
                  IN  IF S1.swim.nodes[i].state # u.state
                      THEN swim_update_node_state(S1, i, u.state)
                      ELSE S1
             ELSE S

\* A Sync loop body that also adopts a record whose incarnation equals the
\* one held.
swim_merge_update_ties(S, u) ==
    IF u.id = S.swim.local_id
    THEN S
    ELSE LET i == swim_find_node(S, u.id)
         IN  IF i = 0
             THEN swim_add_node(S,
                      [swim_create_node(u.id, u.address) EXCEPT
                          !.state = u.state,
                          !.incarnation = u.incarnation,
                          !.is_main_node = u.is_main_node])
             ELSE IF u.incarnation >= S.swim.nodes[i].incarnation
                  THEN LET S1 == [S EXCEPT
                                   !.swim.nodes[i].incarnation = u.incarnation,
                                   !.swim.nodes[i].is_main_node = u.is_main_node]
                       IN  IF S1.swim.nodes[i].state # u.state
                           THEN swim_update_node_state(S1, i, u.state)
                           ELSE S1
                  ELSE S

\* The body of the Sync loop for one update record.
swim_merge_update(S, u) ==
    IF u.id = S.swim.local_id
    THEN S
    ELSE LET i == swim_find_node(S, u.id)
         IN  IF i = 0
             THEN swim_add_node(S,
                      [swim_create_node(u.id, u.address) EXCEPT
                          !.state = u.state,
                          !.incarnation = u.incarnation,
                          !.is_main_node = u.is_main_node])
             ELSE IF u.incarnation > S.swim.nodes[i].incarnation
                  THEN LET S1 == [S EXCEPT
                                   !.swim.nodes[i].incarnation = u.incarnation,
                                   !.swim.nodes[i].is_main_node = u.is_main_node]
                       IN  IF S1.swim.nodes[i].state # u.state
                           THEN swim_update_node_state(S1, i, u.state)
                           ELSE S1
                  ELSE S

RECURSIVE swim_merge_updates(_, _, _)
swim_merge_updates(S, updates, k) ==
    IF k > Len(updates)
    THEN S
    ELSE AndThen(S, swim_merge_updates(swim_merge_update(S, updates[k]),
                                       updates, k + 1))

\* A sender refresh that prepends a record for the sender without looking
\* the sender up first.
swim_refresh_sender_nolookup(S, from, frame) ==
    LET node == swim_create_node(frame.sender_id, from)
    IN  [S EXCEPT !.swim.nodes = <<node>> \o @, !.swim.node_count = @ + 1]

\* A refresh that takes the frame's incarnation whatever the one held.
swim_refresh_incarnation_adopt(S, sender, frame) ==
    [S EXCEPT !.swim.nodes[sender].incarnation = frame.incarnation]

\* The sender refresh at the head of swim_handle_message, in its three
\* steps: the sender's incarnation is raised to the frame's,
swim_refresh_incarnation(S, sender, frame) ==
    IF frame.incarnation > S.swim.nodes[sender].incarnation
    THEN [S EXCEPT !.swim.nodes[sender].incarnation = frame.incarnation]
    ELSE S

\* after the sender, when the engine holds it, was marked seen and Alive,
swim_refresh_seen(S, frame) ==
    LET sender == swim_find_node(S, frame.sender_id)
        S2 == [S EXCEPT !.swim.nodes[sender].last_seen = TimeNow]
    IN  IF sender = 0
        THEN S
        ELSE swim_refresh_incarnation(
                 IF S2.swim.nodes[sender].state # NODE_STATE_ALIVE
                 THEN swim_update_node_state(S2, sender, NODE_STATE_ALIVE)
                 ELSE S2,
                 sender, frame)

\* after a sender not yet held was added, unless the frame is a Sync.
swim_refresh_sender(S, from, frame) ==
    swim_refresh_seen(
        IF swim_find_node(S, frame.sender_id) = 0 /\ frame.type # SWIM_MSG_SYNC
        THEN swim_add_node(S, swim_create_node(frame.sender_id, from))
        ELSE S,
        frame)

\* The switch on the frame's type, S1 being the engine after the refresh.
swim_dispatch(S1, frame) ==
    LET sender == swim_find_node(S1, frame.sender_id)
    IN  AndThen(S1,
        CASE frame.type = SWIM_MSG_PING ->
                 IF sender # 0 THEN swim_send_ack(S1, sender, frame.seq_num) ELSE S1
          [] frame.type = SWIM_MSG_PING_REQ ->
                 LET target == swim_find_node(S1, frame.target_id)
                 IN  IF target # 0 THEN swim_send_ping(S1, target) ELSE S1
          [] frame.type = SWIM_MSG_ACK ->
                 IF sender # 0
                 THEN LET S2 == [S1 EXCEPT !.swim.probe_success = @ + 1]
                      IN  IF S2.swim.nodes[sender].state = NODE_STATE_SUSPECT
                          THEN swim_update_node_state(S2, sender, NODE_STATE_ALIVE)
                          ELSE S2
                 ELSE S1
          [] frame.type = SWIM_MSG_SYNC ->
                 swim_merge_updates(S1, frame.updates, 1)
          [] OTHER -> S1)

swim_handle_message(S, from, frame) ==
    AndThen(S, swim_dispatch(
                   swim_refresh_sender([S EXCEPT !.swim.messages_received = @ + 1],
                                       from, frame),
                   frame))

\* sizeof(swim_message_header_t), sizeof(swim_sync_t) and
\* sizeof(swim_node_update_t), in bytes
HeaderSize == 76
SyncSize == 80
UpdateSize == 140

\* swim_handle_message on the buffer swim_process received dg into: the
\* first dg.len bytes are the datagram's, with the update records
\* dg.frame.updates among them; whatever else the handler reads, it reads
\* from the bytes of the buffer that recvfrom() left as they were (stale).
\* The Sync loop reads dg.node_count records whatever dg.len is.
swim_handle_datagram(S, from, dg, stale) ==
    IF dg.len < HeaderSize
    THEN S
    ELSE swim_handle_message(S, from,
             [dg.frame EXCEPT !.updates =
                 [k \in 1..dg.node_count |->
                     IF k <= Len(dg.frame.updates)
                     THEN dg.frame.updates[k]
                     ELSE stale[k - Len(dg.frame.updates)]]])

\* The nodes swim_select_random_node draws from.
swim_eligible(S) ==
    {i \in 1..Len(S.swim.nodes) :
        /\ ~S.swim.nodes[i].is_local
        /\ S.swim.nodes[i].state \in {NODE_STATE_ALIVE, NODE_STATE_SUSPECT}}

\* A scan body that tests the two timeouts one after the other, so that a
\* node made Suspect is tested for Dead in the same pass.
swim_check_node_cascade(S, i) ==
    LET node == S.swim.nodes[i]
        since_seen == (TimeNow - node.last_seen) * 1000
        S1 == IF ~node.is_local /\ node.state = NODE_STATE_ALIVE
                 /\ since_seen > S.swim.probe_timeout_ms
              THEN [swim_update_node_state(S, i, NODE_STATE_SUSPECT)
                       EXCEPT !.swim.probe_failure = @ + 1]
              ELSE S
    IN  IF ~node.is_local /\ S1.swim.nodes[i].state = NODE_STATE_SUSPECT
           /\ since_seen > S.swim.suspect_timeout_ms
        THEN swim_update_node_state(S1, i, NODE_STATE_DEAD)
        ELSE S1

\* A scan body that compares the staleness in seconds with the timeouts
\* in milliseconds.
swim_check_node_seconds(S, i) ==
    LET node == S.swim.nodes[i]
        since_seen == TimeNow - node.last_seen
    IN  IF node.is_local
        THEN S
        ELSE IF node.state = NODE_STATE_ALIVE /\ since_seen > S.swim.probe_timeout_ms
             THEN [swim_update_node_state(S, i, NODE_STATE_SUSPECT)
                      EXCEPT !.swim.probe_failure = @ + 1]
             ELSE IF node.state = NODE_STATE_SUSPECT
                     /\ since_seen > S.swim.suspect_timeout_ms
                  THEN swim_update_node_state(S, i, NODE_STATE_DEAD)
                  ELSE S

\* The node rand() = r selects: the (r mod count)-th eligible node in list
\* order, as an index, 0 for NULL.
\* A selection among all the nodes held, the local one included.
swim_select_random_node_any(S, r) ==
    IF S.swim.node_count = 0 THEN 0 ELSE 1 + (r % Len(S.swim.nodes))

\* A selection among the non-local nodes whatever their state.
swim_select_random_node_nonlocal(S, r) ==
    LET others == {i \in 1..Len(S.swim.nodes) : ~S.swim.nodes[i].is_local}
    IN  IF S.swim.deadlocked \/ others = {}
        THEN 0
        ELSE CHOOSE i \in others :
                 Cardinality({j \in others : j < i}) = r % Cardinality(others)

swim_select_random_node(S, r) ==
    LET eligible == swim_eligible(S)
    IN  IF S.swim.deadlocked      \* the thread does not come this far
           \/ S.swim.node_count = 0 \/ eligible = {}
        THEN 0
        ELSE CHOOSE i \in eligible :
                 Cardinality({j \in eligible : j < i}) = r % Cardinality(eligible)

\* The values of rand() that tell the choices of swim_select_random_node apart.
SelectRands(S) ==
    0 .. (IF swim_eligible(S) = {} THEN 0 ELSE Cardinality(swim_eligible(S)) - 1)

\* ctx->probe_failure++, which a thread that blocked in the callback of the
\* state change does not come to.
swim_count_failure(T) ==
    IF T.swim.deadlocked THEN T ELSE [T EXCEPT !.swim.probe_failure = @ + 1]

\* The body of the timeout scan for the node at index i.
swim_check_node(S, i) ==
    LET node == S.swim.nodes[i]
        since_seen == (TimeNow - node.last_seen) * 1000
    IN  IF node.is_local
        THEN S
        ELSE IF node.state = NODE_STATE_ALIVE /\ since_seen > S.swim.probe_timeout_ms
             THEN swim_count_failure(
                      swim_update_node_state(S, i, NODE_STATE_SUSPECT))
             ELSE IF node.state = NODE_STATE_SUSPECT
                     /\ since_seen > S.swim.suspect_timeout_ms
                  THEN swim_update_node_state(S, i, NODE_STATE_DEAD)
                  ELSE S

RECURSIVE swim_scan(_, _)
swim_scan(S, i) ==
    IF i > Len(S.swim.nodes) \/ S.swim.deadlocked THEN S
    ELSE AndThen(S, swim_scan(swim_check_node(S, i), i + 1))

\* swim_unlock, by a thread that has not blocked before it.
swim_unlock(T) ==
    IF T.swim.deadlocked THEN T ELSE [T EXCEPT !.swim.locked = FALSE]

\* The scan is made with ctx->lock held, the callbacks of the state changes
\* included.
swim_check_timeouts(S) ==
    swim_unlock(swim_scan([S EXCEPT !.swim.locked = TRUE], 1))

\* One gossip round probing target t (an index, 0 when none is eligible);
\* sc is the value of the static sync_counter before the round.
swim_gossip_round(S, t, sc) ==
    IF t = 0
    THEN S
    ELSE LET S1 == swim_send_ping(S, t)
         IN  IF sc + 1 >= SYNC_EVERY THEN swim_send_sync(S1, t) ELSE S1

swim_init(local_id, port) ==
    LET ctx == [local_id |-> local_id, endpoint |-> port,
                incarnation |-> 1, seq_num |-> 0,
                nodes |-> <<>>, node_count |-> 0,
                is_running |-> FALSE, is_main_node |-> FALSE,
                gossip_interval_ms |-> SWIM_DEFAULT_INTERVAL,
                probe_timeout_ms |-> SWIM_PROBE_TIMEOUT,
                suspect_timeout_ms |-> SWIM_SUSPECT_TIMEOUT,
                on_node_event |-> FALSE,
                messages_sent |-> 0, messages_received |-> 0,
                probe_success |-> 0, probe_failure |-> 0,
                \* the thread of the operation in progress holds ctx->lock
                \* across a call to swim_update_node_state
                locked |-> FALSE,
                \* a thread is blocked in swim_lock on ctx->lock while it
                \* holds it: the lock is never released again
                deadlocked |-> FALSE]
        coord == [state |-> COORD_STATE_FOLLOWER, is_main_node |-> FALSE,
                  leader_id |-> "", term |-> 0, election_timeout |-> 0,
                  votes_received |-> 0, become_leader_calls |-> 0,
                  \* the thread in coordinator_process is blocked in swim_lock
                  blocked |-> FALSE,
                  pending_tasks |-> <<>>, completed_tasks |-> <<>>,
                  pending_count |-> 0, completed_count |-> 0,
                  tasks_processed |-> 0,
                  \* the on_task_complete calls made: (task_id, success)
                  task_complete_calls |-> <<>>,
                  \* the calls in which the application's on_task_complete
                  \* is yet to submit a task of its own
                  resubmits |-> 0]
        local == [swim_create_node(local_id, port) EXCEPT !.is_local = TRUE]
    IN  swim_add_node([swim |-> ctx, coord |-> coord, tx |-> <<>>,
                       events |-> <<>>, rnd |-> 0, relock |-> FALSE],
                      local)

\* The rest of swim_join, S1 being the engine after swim_add_node.
swim_join_seed(S1, seed_id) ==
    LET seed == swim_find_node(S1, seed_id)
    IN  IF seed # 0
        THEN swim_send_sync(swim_send_ping(S1, seed), seed)
        ELSE S1

swim_join(S, address) ==
    swim_join_seed(
        swim_add_node(S, swim_create_node(SeedId(address), address)),
        SeedId(address))

\* The walk of swim_leave from the node at index i on, made with ctx->lock
\* held. swim_send_sync takes ctx->lock again: relocking a mutex of the
\* default type (pthread_mutex_init with NULL attributes) is undefined, and
\* relock tells what the build does, TRUE: the lock admits its owner again
\* (as a CRITICAL_SECTION does), FALSE: the thread blocks for good.
RECURSIVE swim_leave_walk(_, _, _)
swim_leave_walk(S, i, relock) ==
    IF i > Len(S.swim.nodes)
    THEN S
    ELSE IF ~S.swim.nodes[i].is_local
            /\ S.swim.nodes[i].state = NODE_STATE_ALIVE
         THEN IF relock
              THEN swim_leave_walk(swim_send_sync(S, i), i + 1, relock)
              ELSE [S EXCEPT !.swim.deadlocked = TRUE]
         ELSE swim_leave_walk(S, i + 1, relock)

swim_leave(S, relock) ==
    LET local == swim_get_local_node(S)
        S1 == IF local # 0
              THEN swim_update_node_state(S, local, NODE_STATE_LEFT)
              ELSE S
    IN  swim_leave_walk(S1, 1, relock)

swim_start(S) ==
    IF S.swim.is_running THEN S ELSE [S EXCEPT !.swim.is_running = TRUE]

swim_stop(S) ==
    IF ~S.swim.is_running THEN S ELSE [S EXCEPT !.swim.is_running = FALSE]

----------------------------------------------------------------------------
(* node_coordinator.c *)

\* A construction that records start_as_main and leaves the role alone.
coordinator_init_unset(S, start_as_main) ==
    [S EXCEPT !.coord.is_main_node = start_as_main,
              !.coord.state = COORD_STATE_FOLLOWER,
              !.coord.term = 1,
              !.coord.election_timeout = now + ELECTION_TIMEOUT_BASE + S.rnd,
              !.swim.on_node_event = TRUE]

coordinator_init(S, start_as_main) ==
    LET S1 == [S EXCEPT
                 !.coord.is_main_node = start_as_main,
                 !.coord.state = IF start_as_main THEN COORD_STATE_LEADER
                                 ELSE COORD_STATE_FOLLOWER,
                 !.coord.term = 1,
                 !.coord.election_timeout = now + ELECTION_TIMEOUT_BASE + S.rnd]
        local == swim_get_local_node(S1)
        S2 == IF start_as_main /\ local # 0
              THEN swim_set_main_node(
                       [S1 EXCEPT !.coord.leader_id = S1.swim.nodes[local].id], TRUE)
              ELSE S1
    IN  [S2 EXCEPT !.swim.on_node_event = TRUE]

\* coordinator_submit_task (calloc succeeds): the task id is what snprintf
\* makes of time(NULL) and rand() % 10000 (S.rnd); the task goes to the head
\* of the pending list.
coordinator_submit_task(S) ==
    [S EXCEPT !.coord.pending_tasks =
                  <<[task_id |-> <<TimeNow, S.rnd>>]>> \o @,
              !.coord.pending_count = @ + 1]

\* A drain that moves the task at the head of the pending list only.
coordinator_drain_head(S, task) ==
    IF task > Len(S.coord.pending_tasks)
    THEN S
    ELSE [S EXCEPT
            !.coord.tasks_processed = @ + 1,
            !.coord.pending_tasks = Tail(@),
            !.coord.completed_tasks = <<S.coord.pending_tasks[task]>> \o @,
            !.coord.completed_count = @ + 1,
            !.coord.pending_count = @ - 1,
            !.coord.task_complete_calls =
                Append(@, <<S.coord.pending_tasks[task].task_id, TRUE>>)]

\* coord->on_task_complete(task_id, true, ...): the application's callback,
\* which may call coordinator_submit_task.
on_task_complete(S, task_id) ==
    LET S1 == [S EXCEPT !.coord.task_complete_calls = Append(@, <<task_id, TRUE>>)]
    IN  IF S1.coord.resubmits > 0
        THEN coordinator_submit_task([S1 EXCEPT !.coord.resubmits = @ - 1])
        ELSE S1

\* The Leader branch of coordinator_process from the task at index `task`
\* of the pending list on; the list itself is reset after the walk. The
\* walk goes on from the task that followed this one before the callback
\* was called: a task the callback puts at the head of the list moves that
\* one a place down.
RECURSIVE coordinator_drain(_, _)
coordinator_drain(S, task) ==
    IF task > Len(S.coord.pending_tasks)
    THEN [S EXCEPT !.coord.pending_tasks = <<>>]
    ELSE AndThen(S, coordinator_drain(
             on_task_complete(
                 [S EXCEPT
                    !.coord.tasks_processed = @ + 1,
                    !.coord.completed_tasks = <<S.coord.pending_tasks[task]>> \o @,
                    !.coord.completed_count = @ + 1,
                    !.coord.pending_count = @ - 1],
                 S.coord.pending_tasks[task].task_id),
             IF S.coord.resubmits > 0 THEN task + 2 ELSE task + 1))

\* A coordinator_process that drains the pending list whatever the role.
coordinator_process_any_role(S) ==
    coordinator_drain(S, 1)

\* One call of coordinator_process.
coordinator_process(S) ==
    CASE S.coord.state = COORD_STATE_FOLLOWER ->
             IF now > S.coord.election_timeout
             THEN coordinator_start_election(S)
             ELSE S
      [] S.coord.state = COORD_STATE_CANDIDATE ->
             IF S.swim.deadlocked
             THEN [S EXCEPT !.coord.blocked = TRUE]   \* in swim_get_node_count
             ELSE IF S.coord.votes_received
                    > swim_get_node_count(S, NODE_STATE_ALIVE) \div 2
             THEN coordinator_become_leader(S)
             ELSE S
      [] S.coord.state = COORD_STATE_LEADER ->
             coordinator_drain(S, 1)
      [] OTHER -> S

coordinator_is_leader(S) == S.coord.state = COORD_STATE_LEADER

----------------------------------------------------------------------------
(* node_manager.c *)

node_manager_init(server_id, port_start, port_end) ==
    LET start == IF port_start # 0 THEN port_start ELSE DEFAULT_PORT_RANGE_START
        end == IF port_end # 0 THEN port_end
               ELSE (port_start + DEFAULT_PORT_RANGE_SIZE) % UINT16_RANGE
    IN  [server_id |-> server_id,
         port_range_start |-> start, port_range_end |-> end,
         next_available_port |-> start,
         max_instances |-> MAX_NODES_PER_SERVER,
         instances |-> <<>>, instance_count |-> 0,
         ret |-> 0,          \* what the call in progress returns
         allocs |-> <<>>]    \* history: the allocate_port calls of the call in progress

\* The ports held by the instances the manager owns.
HeldPorts(M) ==
    {M.instances[i].swim_port : i \in 1..Len(M.instances)}
        \cup {M.instances[i].ws_port : i \in 1..Len(M.instances)}

\* A port test that looks at the membership ports only.
port_in_use_swim_only(M, port) ==
    \E i \in 1..Len(M.instances) : M.instances[i].swim_port = port

\* The inner loop of node_manager_allocate_port.
port_in_use(M, port) ==
    \E i \in 1..Len(M.instances) :
        M.instances[i].swim_port = port \/ M.instances[i].ws_port = port

\* An allocation that hands out the cursor's port without the scan.
allocate_probe_unscanned(M, p, port) == port

\* The outer loop of node_manager_allocate_port from counter p with
\* candidate port: the port found, 0 when the loop ends without one.
RECURSIVE allocate_probe(_, _, _)
allocate_probe(M, p, port) ==
    IF p >= M.port_range_end
    THEN 0
    ELSE IF ~port_in_use(M, port)
         THEN port
         ELSE allocate_probe(M, (p + 1) % UINT16_RANGE,
                  IF (port + 1) % UINT16_RANGE >= M.port_range_end
                  THEN M.port_range_start
                  ELSE (port + 1) % UINT16_RANGE)

node_manager_allocate_port(M) ==
    LET port == allocate_probe(M, M.port_range_start, M.next_available_port)
        call == [port |-> port, held |-> HeldPorts(M),
                 cursor |-> M.next_available_port]
        M1 == [M EXCEPT !.ret = port, !.allocs = Append(@, call)]
    IN  IF port # 0
        THEN [M1 EXCEPT !.next_available_port =
                 IF (port + 1) % UINT16_RANGE >= M.port_range_end
                 THEN M.port_range_start
                 ELSE (port + 1) % UINT16_RANGE]
        ELSE M1

generate_node_id(server_id, index) ==
    server_id \o "-node-" \o ToString(index) \o "-" \o ToString(TimeNow)

\* Index of the first instance with this id, 0 for NULL.
node_manager_get_node(M, id) ==
    LET hit == {i \in 1..Len(M.instances) : M.instances[i].id = id}
    IN  IF hit = {} THEN 0 ELSE CHOOSE i \in hit : \A j \in hit : i <= j

\* A start that does not look at the running flag.
node_manager_start_node_again(M, id) ==
    LET i == node_manager_get_node(M, id)
    IN  IF i = 0 THEN [M EXCEPT !.ret = -1]
        ELSE [M EXCEPT !.instances[i].S = swim_start(@),
                       !.instances[i].is_running = TRUE,
                       !.instances[i].start_time = TimeNow,
                       !.ret = 0]

node_manager_start_node(M, id) ==
    LET i == node_manager_get_node(M, id)
    IN  IF i = 0 THEN [M EXCEPT !.ret = -1]
        ELSE IF M.instances[i].is_running THEN [M EXCEPT !.ret = 0]
        ELSE [M EXCEPT !.instances[i].S = swim_start(@),
                       !.instances[i].is_running = TRUE,
                       !.instances[i].start_time = TimeNow,
                       !.ret = 0]

\* relock: what relocking ctx->lock does in swim_leave; when the thread
\* blocks there the call never returns and the instance stays as it is.
node_manager_stop_node(M, id, relock) ==
    LET i == node_manager_get_node(M, id)
    IN  IF i = 0 THEN [M EXCEPT !.ret = -1]
        ELSE IF ~M.instances[i].is_running THEN [M EXCEPT !.ret = 0]
        ELSE IF swim_leave(M.instances[i].S, relock).swim.deadlocked
        THEN [M EXCEPT !.instances[i].S = swim_leave(@, relock)]
        ELSE [M EXCEPT !.instances[i].S = swim_stop(swim_leave(@, relock)),
                       !.instances[i].is_running = FALSE,
                       !.instances[i].uptime_seconds =
                           @ + (TimeNow - M.instances[i].start_time),
                       !.ret = 0]

\* env.bind_ok: whether bind() on the membership port succeeds in swim_init;
\* env.rnd: the value rand() % 150 yields to coordinator_init.
\* node_manager_create_node past its test of instance_count, which it makes
\* with the manager's lock held and leaves behind when it unlocks.
node_manager_create_unchecked(M, config, env) ==
    LET M1 == IF config.swim_port = 0 THEN node_manager_allocate_port(M) ELSE M
        swim_port == IF config.swim_port = 0 THEN M1.ret ELSE config.swim_port
    IN  IF swim_port = 0
        THEN [M1 EXCEPT !.ret = 0]
        ELSE
        LET M2 == IF config.ws_port = 0 THEN node_manager_allocate_port(M1) ELSE M1
            ws_port == IF config.ws_port = 0 THEN M2.ret ELSE config.ws_port
            id == IF config.node_id # "" THEN config.node_id
                  ELSE generate_node_id(M.server_id, M.instance_count)
            S == coordinator_init([swim_init(id, swim_port) EXCEPT !.rnd = env.rnd],
                                  config.is_main_node)
            node == [id |-> id, swim_port |-> swim_port, ws_port |-> ws_port,
                     is_main_node |-> config.is_main_node, is_running |-> FALSE,
                     start_time |-> 0, uptime_seconds |-> 0,
                     S |-> [S EXCEPT !.tx = <<>>, !.events = <<>>, !.rnd = 0,
                                  !.relock = FALSE]]
            M3 == [M2 EXCEPT !.instances = <<node>> \o @,
                             !.instance_count = @ + 1]
            M4 == IF config.auto_start THEN node_manager_start_node(M3, id) ELSE M3
            M5 == IF config.auto_start /\ config.seed_address # ""
                     /\ config.seed_port > 0
                  THEN [M4 EXCEPT !.instances[1].S =
                           [swim_join(@, config.seed_address)
                               EXCEPT !.tx = <<>>, !.events = <<>>]]
                  ELSE M4
        IN  IF ~env.bind_ok
            THEN [M2 EXCEPT !.ret = 0]
            ELSE [M5 EXCEPT !.ret = 1]

node_manager_create_node(M, config, env) ==
    IF M.instance_count >= M.max_instances
    THEN [M EXCEPT !.ret = 0]
    ELSE node_manager_create_unchecked(M, config, env)

RECURSIVE remove_first(_, _)
remove_first(instances, id) ==
    IF instances = <<>> THEN <<>>
    ELSE IF Head(instances).id = id THEN Tail(instances)
    ELSE <<Head(instances)>> \o remove_first(Tail(instances), id)

node_manager_remove_node(M, id, relock) ==
    LET M1 == node_manager_stop_node(M, id, relock)
        i == node_manager_get_node(M1, id)
    IN  IF i # 0 /\ M1.instances[i].S.swim.deadlocked
        THEN M1
        ELSE IF i # 0
        THEN [M1 EXCEPT !.instances = remove_first(@, id),
                        !.instance_count = @ - 1,
                        !.ret = 0]
        ELSE [M1 EXCEPT !.ret = -1]

----------------------------------------------------------------------------
(* The membership engine on its own (as tests/test_swim.c builds it):      *)
(* engine "a", its worker, the API calls, and datagrams from the outside.  *)

Solo == "a"

FrameIds == {"a", "b", SeedId("b")}
FrameIncs == {1, 2}
StateBytes == {NODE_STATE_ALIVE, NODE_STATE_SUSPECT, NODE_STATE_DEAD,
               NODE_STATE_LEFT, BadStateByte}

\* The endpoint a frame naming this id comes from or points to.
IdAddr(id) == IF id = "a" THEN "a" ELSE "b"

Updates ==
    {[id |-> "b", address |-> "b", state |-> st, incarnation |-> inc,
      is_main_node |-> FALSE] :
        st \in StateBytes, inc \in FrameIncs}
    \cup
    {[id |-> "b", address |-> "b", state |-> NODE_STATE_ALIVE,
      incarnation |-> inc, is_main_node |-> TRUE] : inc \in FrameIncs}
    \cup
    {[id |-> "a", address |-> "b", state |-> NODE_STATE_DEAD,
      incarnation |-> 2, is_main_node |-> FALSE]}

InFrames ==
    {[type |-> ty, seq_num |-> 1, sender_id |-> s, incarnation |-> inc,
      target_id |-> "a", source_id |-> "", updates |-> <<>>] :
        ty \in {SWIM_MSG_PING, SWIM_MSG_ACK}, s \in {"a", "b"},
        inc \in FrameIncs}
    \cup
    {[type |-> SWIM_MSG_PING, seq_num |-> 1, sender_id |-> SeedId("b"),
      incarnation |-> 2, target_id |-> "a", source_id |-> "",
      updates |-> <<>>]}
    \cup
    {[type |-> SWIM_MSG_PING_REQ, seq_num |-> 1, sender_id |-> "b",
      incarnation |-> 1, target_id |-> t, source_id |-> "b", updates |-> <<>>] :
        t \in {"b", "c"}}
    \cup
    {[type |-> SWIM_MSG_SYNC, seq_num |-> 1, sender_id |-> "b",
      incarnation |-> 1, target_id |-> "", source_id |-> "",
      updates |-> us] :
        us \in {<<>>} \cup {<<u>> : u \in Updates}}

\* The ids a frame gives the engine.
FrameMentions(frame) ==
    {frame.sender_id} \cup {frame.updates[k].id : k \in 1..Len(frame.updates)}

\* (\E over a one-element set: TLC evaluates the element once, here.)
Commit(e, S) ==
    \E T \in {S} : inst' = [inst EXCEPT ![e] = [T EXCEPT !.tx = <<>>, !.events = <<>>, !.rnd = 0,
                                  !.relock = FALSE]]

Begin(e, r) == [inst[e] EXCEPT !.tx = <<>>, !.events = <<>>, !.rnd = r]

\* The engines after swim_init, at time 0.
InitEngines ==
    /\ now = 0
    /\ inst = [e \in Engines |-> swim_init(e, e)]
    /\ wake = [e \in Engines |-> 0]
    /\ crashed = {}
    /\ net = <<>>
    /\ sync_counter = 0
    /\ observed = [e \in Engines |-> {e}]
    /\ silenced = {}
    /\ calls = [e \in Engines |-> 0]

Init ==
    /\ InitEngines
    /\ mgr = node_manager_init("srv", 0, 0)
    /\ trial = [step |-> 0]

AdvanceTime(horizon) ==
    /\ now + ClockStep(now) <= horizon * 1000
    /\ now' = now + ClockStep(now)
    /\ UNCHANGED <<mgr, trial, inst, wake, crashed, net, sync_counter, observed, silenced, calls>>

\* swim_start: the worker thread begins its loop.
Start(e) ==
    /\ ~inst[e].swim.is_running
    /\ inst' = [inst EXCEPT ![e].swim.is_running = TRUE]
    /\ wake' = [wake EXCEPT ![e] = now]
    /\ UNCHANGED <<mgr, trial, now, crashed, net, sync_counter, observed, silenced, calls>>

\* One datagram of the worker's receive pump, sent by the outside world.
Receive(e) ==
    /\ ~inst[e].swim.deadlocked
    /\ inst[e].swim.messages_received < MaxRecv
    /\ \E frame \in InFrames :
        /\ FrameMentions(frame) \cap silenced = {}
        /\ Commit(e, swim_handle_message(Begin(e, 0), IdAddr(frame.sender_id), frame))
        /\ observed' = [observed EXCEPT ![e] = @ \cup FrameMentions(frame)]
    /\ UNCHANGED <<mgr, trial, now, wake, crashed, net, sync_counter, silenced, calls>>

\* The worker's gossip round, then its usleep(gossip_interval_ms).
GossipRound(e) ==
    /\ ~inst[e].swim.deadlocked
    /\ inst[e].swim.is_running
    /\ now >= wake[e]
    /\ \E S1 \in {swim_check_timeouts(Begin(e, 0))} :
           \E r \in SelectRands(S1) :
            LET t == swim_select_random_node(S1, r)
            IN  /\ Commit(e, swim_gossip_round(S1, t, sync_counter))
                /\ sync_counter' = IF t = 0 THEN sync_counter
                                   ELSE IF sync_counter + 1 >= SYNC_EVERY THEN 0
                                   ELSE sync_counter + 1
    /\ wake' = [wake EXCEPT ![e] = now + inst[e].swim.gossip_interval_ms]
    /\ UNCHANGED <<mgr, trial, now, crashed, net, observed, silenced, calls>>

Join(e) ==
    /\ ~inst[e].swim.deadlocked
    /\ calls[e] < MaxCalls
    /\ calls' = [calls EXCEPT ![e] = @ + 1]
    /\ Commit(e, swim_join(Begin(e, 0), "b"))
    /\ observed' = [observed EXCEPT ![e] = @ \cup {SeedId("b")}]
    /\ UNCHANGED <<mgr, trial, now, wake, crashed, net, sync_counter, silenced>>

\* swim_leave; when the calling thread blocks in it, every later call that
\* takes ctx->lock blocks as well.
Leave(e) ==
    /\ ~inst[e].swim.deadlocked
    /\ calls[e] < MaxCalls
    /\ calls' = [calls EXCEPT ![e] = @ + 1]
    /\ \E relock \in BOOLEAN : Commit(e, swim_leave(Begin(e, 0), relock))
    /\ UNCHANGED <<mgr, trial, now, wake, crashed, net, sync_counter, observed, silenced>>

SetMain(e) ==
    /\ ~inst[e].swim.deadlocked
    /\ calls[e] < MaxCalls
    /\ calls' = [calls EXCEPT ![e] = @ + 1]
    /\ \E b \in BOOLEAN : Commit(e, swim_set_main_node(Begin(e, 0), b))
    /\ UNCHANGED <<mgr, trial, now, wake, crashed, net, sync_counter, observed, silenced>>

\* A peer falls silent: nothing from it or about it arrives from now on.
Silence(id) ==
    /\ id \notin silenced
    /\ silenced' = silenced \cup {id}
    /\ UNCHANGED <<mgr, trial, now, inst, wake, crashed, net, sync_counter, observed, calls>>

Next ==
    \/ AdvanceTime(MaxTime)
    \/ Start(Solo)
    \/ Receive(Solo)
    \/ GossipRound(Solo)
    \/ Join(Solo)
    \/ Leave(Solo)
    \/ SetMain(Solo)

Spec == Init /\ [][Next]_vars

----------------------------------------------------------------------------
(* Properties of the engine on its own *)

Ids == FrameIds \cup Engines

Local(S) == S.swim.nodes[swim_get_local_node(S)]

\* The incarnation the engine records for id, 0 when it holds no record.
IncarnationOf(S, id) ==
    IF swim_find_node(S, id) = 0 THEN 0
    ELSE S.swim.nodes[swim_find_node(S, id)].incarnation

\* C5: the local node's record is always Alive or Left, whatever frames
\* (Sync records and headers naming the local id included), timeout scans,
\* joins, leaves and set_main calls the engine has gone through.
C5_LocalAliveOrLeft ==
    /\ swim_get_local_node(inst[Solo]) # 0
    /\ Local(inst[Solo]).state \in {NODE_STATE_ALIVE, NODE_STATE_LEFT}

\* The engine has left after a frame whose header names the local id
\* refreshed the local record at 1 s, and has run a gossip round since.
C5_Witness ==
    /\ Local(inst[Solo]).state = NODE_STATE_LEFT
    /\ Local(inst[Solo]).last_seen >= 1
    /\ wake[Solo] > now

\* C6: exactly one record has is_local, its id is the id given to swim_init,
\* swim_find_node(local_id) returns that record, and swim_find_node of an id
\* the engine was never given returns nothing.
C6_OneLocalRecord ==
    LET S == inst[Solo]
    IN  /\ Cardinality({i \in 1..Len(S.swim.nodes) : S.swim.nodes[i].is_local}) = 1
        /\ Local(S).id = Solo
        /\ swim_find_node(S, S.swim.local_id) = swim_get_local_node(S)
        /\ \A id \in Ids \ observed[Solo] : swim_find_node(S, id) = 0

\* The engine holds the local record behind two records made by a join and
\* by a frame, and a frame naming the local id would find the local record.
C6_Witness ==
    /\ Len(inst[Solo].swim.nodes) = 3
    /\ swim_get_local_node(inst[Solo]) = 3
    /\ inst[Solo].swim.messages_received >= 1
    /\ calls[Solo] >= 1

\* C7: the incarnation of every node record never decreases, over frames,
\* Sync merges, repeated joins of the same seed and set_main calls.
C7_IncarnationNeverDecreases ==
    [][\A id \in Ids :
          IncarnationOf(inst'[Solo], id) >= IncarnationOf(inst[Solo], id)]_vars

\* C9: the counts by state over Alive, Suspect, Dead and Left add up to
\* node_count, also after Sync records carrying an arbitrary state byte.
C9_StateCountsAddUp ==
    LET S == inst[Solo]
    IN  swim_get_node_count(S, NODE_STATE_ALIVE)
        + swim_get_node_count(S, NODE_STATE_SUSPECT)
        + swim_get_node_count(S, NODE_STATE_DEAD)
        + swim_get_node_count(S, NODE_STATE_LEFT) = S.swim.node_count

----------------------------------------------------------------------------
(* Failure detection: the engine on its own with a worker that is on time. *)
(* The worker sleeps gossip_interval_ms between rounds, so a running       *)
(* worker has run its round before the clock reaches the next instant.     *)

AdvanceTimely ==
    /\ inst[Solo].swim.is_running => wake[Solo] > now
    /\ AdvanceTime(DetectTime)

NextDetect ==
    \/ AdvanceTimely
    \/ Start(Solo)
    \/ Receive(Solo)
    \/ GossipRound(Solo)
    \/ Join(Solo)

SpecDetect == Init /\ [][NextDetect]_vars

\* The same without joins, with a peer that may fall silent, and with the
\* clock and the worker both making progress.
NextSilent ==
    \/ AdvanceTimely
    \/ Start(Solo)
    \/ Receive(Solo)
    \/ GossipRound(Solo)
    \/ Silence("b")

SpecSilent ==
    /\ Init
    /\ [][NextSilent]_vars
    /\ WF_vars(AdvanceTimely)
    /\ WF_vars(GossipRound(Solo))

\* The state the engine records for id, -1 when it holds no record.
PeerState(id) ==
    IF swim_find_node(inst[Solo], id) = 0 THEN -1
    ELSE inst[Solo].swim.nodes[swim_find_node(inst[Solo], id)].state

\* Peer b has fallen silent at time 0 and the engine's worker is running.
SilentFromStart(states) ==
    /\ now = 0
    /\ "b" \in silenced
    /\ inst[Solo].swim.is_running
    /\ PeerState("b") \in states

\* C3: when peer b stops sending while the engine keeps running its gossip
\* rounds, the engine's record of b eventually becomes Suspect, then Dead,
\* and stays Dead as long as nothing from or about b arrives.
C3_SilentPeerDies ==
    /\ SilentFromStart({NODE_STATE_ALIVE, NODE_STATE_SUSPECT})
           ~> (PeerState("b") = NODE_STATE_DEAD)
    /\ [][("b" \in silenced /\ PeerState("b") = NODE_STATE_ALIVE)
            => (PeerState("b") \in {NODE_STATE_ALIVE, NODE_STATE_SUSPECT})']_vars
    /\ [][("b" \in silenced /\ PeerState("b") = NODE_STATE_DEAD)
            => (PeerState("b") = NODE_STATE_DEAD)']_vars

\* b, heard of at 0 s and silent since, is Dead at 6 s after two probe
\* failures were counted.
C3_Witness ==
    /\ "b" \in silenced
    /\ PeerState("b") = NODE_STATE_DEAD
    /\ inst[Solo].swim.nodes[swim_find_node(inst[Solo], "b")].last_seen = 0
    /\ now = 6000

\* The state one timeout scan at the current time leaves node i of S in.
ScannedState(S, i) ==
    LET node == S.swim.nodes[i]
        staleness == (TimeNow - node.last_seen) * 1000
    IN  IF ~node.is_local /\ node.state = NODE_STATE_ALIVE
           /\ staleness > S.swim.probe_timeout_ms
        THEN NODE_STATE_SUSPECT
        ELSE IF ~node.is_local /\ node.state = NODE_STATE_SUSPECT
                /\ staleness > S.swim.suspect_timeout_ms
             THEN NODE_STATE_DEAD
             ELSE node.state

\* C4: one timeout scan makes Suspect every non-local Alive node whose
\* staleness exceeds probe_timeout, counting one probe failure for each,
\* makes Dead every non-local Suspect node whose staleness exceeds
\* suspect_timeout, and leaves the local node and every Dead or Left node
\* as they were: no node goes from Alive to Dead in one scan.
C4_TimeoutScan ==
    [][GossipRound(Solo) =>
        LET S == inst[Solo]
            T == inst'[Solo]
            N == 1..Len(S.swim.nodes)
        IN  /\ Len(T.swim.nodes) = Len(S.swim.nodes)
            /\ \A i \in N :
                  T.swim.nodes[i] = [S.swim.nodes[i] EXCEPT !.state = ScannedState(S, i)]
            /\ T.swim.probe_failure = S.swim.probe_failure
                  + Cardinality({i \in N : S.swim.nodes[i].state = NODE_STATE_ALIVE
                                           /\ ScannedState(S, i) = NODE_STATE_SUSPECT})
            /\ \A i \in N :
                  S.swim.nodes[i].state = NODE_STATE_ALIVE
                      => T.swim.nodes[i].state # NODE_STATE_DEAD]_vars

\* A scan at 6 s has made b Dead and the seed joined at 5 s Suspect, a scan
\* before it had made b Suspect.
C4_Witness ==
    /\ PeerState("b") = NODE_STATE_DEAD
    /\ PeerState(SeedId("b")) = NODE_STATE_SUSPECT
    /\ inst[Solo].swim.probe_failure = 2
    /\ now = 6000

----------------------------------------------------------------------------
(* The port pool: a manager over one of a few port ranges, asked to create *)
(* and remove instances and to allocate ports.                             *)

\* The (port_start, port_end) pairs node_manager_init is given.
PortRanges == {<<0, 0>>, <<0, 7948>>, <<7946, 7949>>, <<7947, 7949>>}

Configs ==
    [node_id : {"", "n1"}, swim_port : {0, 7947}, ws_port : {0, 7948},
     is_main_node : {FALSE}, auto_start : BOOLEAN,
     seed_address : {""}, seed_port : {0}]

InstanceIds == {"n1", generate_node_id("srv", 0), generate_node_id("srv", 1)}

InitPorts ==
    /\ InitEngines
    /\ \E r \in PortRanges :
          /\ mgr = node_manager_init("srv", r[1], r[2])
          \* the (port_start, port_end) the manager was initialised with
          /\ trial = [step |-> 0, range |-> r]

MgrBegin == [mgr EXCEPT !.ret = 0, !.allocs = <<>>]

AllocatePort ==
    /\ mgr' = node_manager_allocate_port(MgrBegin)
    /\ UNCHANGED <<now, inst, wake, crashed, net, sync_counter, observed,
                   silenced, calls, trial>>

CreateNode ==
    /\ mgr.instance_count < MaxInstances
    /\ \E config \in Configs, bind_ok \in BOOLEAN :
          mgr' = node_manager_create_node(MgrBegin, config,
                     [bind_ok |-> bind_ok, rnd |-> 0])
    /\ UNCHANGED <<now, inst, wake, crashed, net, sync_counter, observed,
                   silenced, calls, trial>>

RemoveNode ==
    /\ \E id \in InstanceIds, relock \in BOOLEAN :
          mgr' = node_manager_remove_node(MgrBegin, id, relock)
    /\ UNCHANGED <<now, inst, wake, crashed, net, sync_counter, observed,
                   silenced, calls, trial>>

NextPorts ==
    \/ AllocatePort
    \/ CreateNode
    \/ RemoveNode

SpecPorts == InitPorts /\ [][NextPorts]_vars

PortRange == mgr.port_range_start .. (mgr.port_range_end - 1)

\* C10: allocate_port returns 0 or a port of [range_start, range_end) that
\* is neither the membership port nor the application port of an instance
\* the manager owns, and it returns 0 exactly when every port of the range
\* is held.
C10_AllocatedPortIsFree ==
    \A k \in 1..Len(mgr.allocs) :
        LET call == mgr.allocs[k]
        IN  /\ call.port # 0 => (call.port \in PortRange /\ call.port \notin call.held)
            /\ call.port = 0 <=> PortRange \subseteq call.held

\* A call that found the cursor on a held port and returned another port,
\* and a manager whose last call found every port of its range held.
C10_Witness ==
    /\ Len(mgr.allocs) = 1
    /\ PortRange # {}
    /\ \/ mgr.allocs[1].cursor \in mgr.allocs[1].held /\ mgr.allocs[1].port # 0
       \/ mgr.allocs[1].port = 0

----------------------------------------------------------------------------
(* Sync merge: engine "a", which holds no record of b or the one an        *)
(* earlier Sync frame gave it, handles two Sync frames of one record each, *)
(* in the one order and in the other.                                      *)

MaxSyncInc == 3     \* the incarnations of the Sync records are 1..MaxSyncInc

SyncRecords ==
    [id : {"b"}, address : {"b"}, state : StateBytes,
     incarnation : 1..MaxSyncInc, is_main_node : BOOLEAN]

\* A Sync frame of sender c, which the engine does not know, with one record.
SyncFrame(u) ==
    [type |-> SWIM_MSG_SYNC, seq_num |-> 1, sender_id |-> "c",
     incarnation |-> 1, target_id |-> "", source_id |-> "", updates |-> <<u>>]

\* What the engine records of id: state, incarnation and is_main.
NodeView(S, id) ==
    LET i == swim_find_node(S, id)
    IN  IF i = 0
        THEN [present |-> FALSE, state |-> 0, incarnation |-> 0, is_main_node |-> FALSE]
        ELSE [present |-> TRUE, state |-> S.swim.nodes[i].state,
              incarnation |-> S.swim.nodes[i].incarnation,
              is_main_node |-> S.swim.nodes[i].is_main_node]

RecordView(u) ==
    [present |-> TRUE, state |-> u.state, incarnation |-> u.incarnation,
     is_main_node |-> u.is_main_node]

\* The engine after the Sync frames of records u1 then u2.
AfterSync(S, u1, u2) ==
    swim_handle_message(swim_handle_message(S, "c", SyncFrame(u1)),
                        "c", SyncFrame(u2))

SyncPrior ==
    /\ trial.step = 0
    /\ \E u \in SyncRecords :
          Commit(Solo, swim_handle_message(Begin(Solo, 0), "c", SyncFrame(u)))
    /\ trial' = [step |-> 1]
    /\ UNCHANGED <<now, wake, crashed, net, sync_counter, observed, silenced,
                   calls, mgr>>

SyncPair ==
    /\ trial.step \in {0, 1}
    /\ \E u1, u2 \in SyncRecords :
          \E S12 \in {AfterSync(Begin(Solo, 0), u1, u2)},
             S21 \in {AfterSync(Begin(Solo, 0), u2, u1)} :
              /\ Commit(Solo, S12)
              /\ trial' = [step |-> 2, first |-> u1, second |-> u2,
                           held |-> NodeView(inst[Solo], "b"),
                           forward |-> NodeView(S12, "b"),
                           backward |-> NodeView(S21, "b")]
    /\ UNCHANGED <<now, wake, crashed, net, sync_counter, observed, silenced,
                   calls, mgr>>

NextSync ==
    \/ SyncPrior
    \/ SyncPair

SpecSync == Init /\ [][NextSync]_vars

\* The result the claim gives for the records u1 then u2.
MergedView(u1, u2) ==
    IF u2.incarnation > u1.incarnation THEN RecordView(u2) ELSE RecordView(u1)

\* C8 as stated: two Sync records for the same non-local id, applied in
\* either order, leave the node with the state, incarnation and is_main of
\* the record with the strictly greater incarnation; with equal
\* incarnations the record applied first is kept.
C8_SyncMergeAnyEngine ==
    trial.step = 2 =>
        /\ trial.forward = MergedView(trial.first, trial.second)
        /\ trial.backward = MergedView(trial.second, trial.first)

\* C8, amended: the above holds when the engine holds no record of the id,
\* or one whose incarnation is lower than that of one of the two records;
\* when the record it holds has an incarnation at least that of both, the
\* engine keeps the record it holds.
C8_SyncMergeMonotonic ==
    trial.step = 2 =>
        IF trial.held.present
           /\ trial.held.incarnation >= trial.first.incarnation
           /\ trial.held.incarnation >= trial.second.incarnation
        THEN trial.forward = trial.held /\ trial.backward = trial.held
        ELSE /\ trial.forward = MergedView(trial.first, trial.second)
             /\ trial.backward = MergedView(trial.second, trial.first)

\* The engine held b at incarnation 1 and was given records of incarnations
\* 2 and 3 that differ in state and is_main: both orders end with the latter.
C8_Witness ==
    /\ trial.step = 2
    /\ trial.held.present /\ trial.held.incarnation = 1
    /\ trial.first.incarnation = 2 /\ trial.second.incarnation = 3
    /\ trial.first.state # trial.second.state
    /\ trial.first.is_main_node # trial.second.is_main_node
    /\ trial.forward = RecordView(trial.second)
    /\ trial.backward = RecordView(trial.second)

----------------------------------------------------------------------------
(* The mesh: engines a, b and c, each in a process of its own with its     *)
(* coordinator, exchanging datagrams.  a is the one started as main; b     *)
(* joins a, c joins a and b.  a's process may be killed.  An engine's      *)
(* worker handles the datagrams waiting on its socket, runs a gossip round *)
(* and sleeps; the main loop of its process calls coordinator_process.     *)

MeshTime == 5       \* the clock of the mesh stops after MeshTime seconds

\* The values rand() yields in the mesh.
Rands == {0}

\* (engine, address) of the swim_join calls made in the mesh.
JoinPlan == {<<"b", "a">>, <<"c", "a">>, <<"c", "b">>}

\* The longest election timeout.
ElectionWindow == ELECTION_TIMEOUT_BASE + ELECTION_TIMEOUT_SPREAD

\* Each process has made its engine, attached its coordinator (a as main)
\* and started the engine's worker.
InitMesh ==
    /\ now = 0
    /\ \E r \in Rands :
          inst = [e \in Engines |->
                    [swim_start(coordinator_init(
                         [swim_init(e, e) EXCEPT !.rnd = r], e = "a"))
                       EXCEPT !.rnd = 0]]
    /\ wake = [e \in Engines |-> 0]
    /\ crashed = {}
    /\ net = <<>>
    \* the static counter of each engine's process
    /\ sync_counter = [e \in Engines |-> 0]
    /\ observed = [e \in Engines |-> {e}]
    /\ silenced = {}
    /\ calls = [e \in Engines |-> 0]
    /\ mgr = node_manager_init("srv", 0, 0)
    /\ trial = [step |-> 0,
                \* when the engine first saw the killed a as not Alive, -1 before
                down_seen |-> [e \in Engines |-> -1],
                \* ticks of its coordinator an election window later, up to 2
                late_tick |-> [e \in Engines |-> 0]]

\* The state engine S records for id, -1 when it holds no record.
StateAt(S, id) ==
    IF swim_find_node(S, id) = 0 THEN -1
    ELSE S.swim.nodes[swim_find_node(S, id)].state

\* The datagrams of tx that reach a live process, in the order sent.
Sent(S, dead) == SelectSeq(S.tx, LAMBDA m : m.to \in Engines \ dead)

SeenDown(e, S, dead, t) ==
    IF "a" \in dead /\ t.down_seen[e] = -1
       /\ StateAt(S, "a") \notin {-1, NODE_STATE_ALIVE}
    THEN [t EXCEPT !.down_seen[e] = now]
    ELSE t

\* swim_process: every datagram of queue addressed to the engine, in order.
RECURSIVE swim_process(_, _, _)
swim_process(S, e, queue) ==
    IF queue = <<>> THEN S
    ELSE AndThen(S, swim_process(
                        IF Head(queue).to = e
                        THEN swim_handle_message(S, Head(queue).from,
                                                 Head(queue).frame)
                        ELSE S,
                        e, Tail(queue)))

MeshCommit(e, S, rest) ==
    \E T \in {S} :
        /\ inst' = [inst EXCEPT ![e] = [T EXCEPT !.tx = <<>>, !.events = <<>>, !.rnd = 0,
                                  !.relock = FALSE]]
        /\ net' = rest \o Sent(T, crashed)
        /\ trial' = SeenDown(e, T, crashed, trial)

MeshJoin(e, address) ==
    /\ e \notin crashed
    /\ swim_find_node(inst[e], SeedId(address)) = 0
    /\ MeshCommit(e, swim_join(Begin(e, 0), address), net)
    /\ observed' = [observed EXCEPT ![e] = @ \cup {SeedId(address)}]
    /\ UNCHANGED <<mgr, now, wake, crashed, sync_counter, silenced, calls>>

\* The workers wake in the order a, b, c.
Before(f, e) == \/ f = "a" /\ e \in {"b", "c"}
                \/ f = "b" /\ e = "c"

\* One iteration of swim_thread_func: swim_process, swim_gossip_round, usleep.
WorkerLoop(e) ==
    /\ e \notin crashed
    /\ inst[e].swim.is_running
    /\ now >= wake[e]
    /\ \A f \in Engines \ crashed : Before(f, e) => wake[f] > now
    /\ LET mine == SelectSeq(net, LAMBDA m : m.to = e)
           rest == SelectSeq(net, LAMBDA m : m.to # e)
       IN  /\ \E S0 \in {swim_process(Begin(e, 0), e, net)} :
               \E S1 \in {swim_check_timeouts(S0)} :
               \E r \in Rands :
                LET t == swim_select_random_node(S1, r)
                IN  /\ MeshCommit(e, swim_gossip_round(S1, t, sync_counter[e]), rest)
                    /\ sync_counter' = [sync_counter EXCEPT ![e] =
                                           IF t = 0 THEN @
                                           ELSE IF @ + 1 >= SYNC_EVERY THEN 0
                                           ELSE @ + 1]
           /\ observed' = [observed EXCEPT ![e] = @ \cup
                  UNION {FrameMentions(mine[k].frame) : k \in 1..Len(mine)}]
    /\ wake' = [wake EXCEPT ![e] = now + inst[e].swim.gossip_interval_ms]
    /\ UNCHANGED <<mgr, now, crashed, silenced, calls>>

\* One call of coordinator_process from the process's main loop.
Tick(e) ==
    /\ e \notin crashed
    /\ \E r \in Rands :
          inst' = [inst EXCEPT ![e] =
                      [coordinator_process(Begin(e, r)) EXCEPT !.rnd = 0]]
    /\ trial' = IF trial.down_seen[e] # -1
                   /\ now > trial.down_seen[e] + ElectionWindow
                THEN [trial EXCEPT !.late_tick[e] = IF @ < 2 THEN @ + 1 ELSE @]
                ELSE trial
    /\ UNCHANGED <<mgr, now, wake, crashed, net, sync_counter, observed,
                   silenced, calls>>

\* a's process is killed: its engine and coordinator stop for good, the
\* datagrams on their way to it are lost.
Crash ==
    /\ crashed = {}
    /\ crashed' = {"a"}
    /\ net' = SelectSeq(net, LAMBDA m : m.to # "a")
    /\ trial' = [trial EXCEPT !.down_seen =
                    [e \in Engines |->
                        IF e # "a" /\ StateAt(inst[e], "a") \notin {-1, NODE_STATE_ALIVE}
                        THEN now ELSE -1]]
    /\ UNCHANGED <<mgr, now, inst, wake, sync_counter, observed, silenced, calls>>

\* The clock moves on once every live worker has had its iteration.
MeshAdvanceTime ==
    /\ \A e \in Engines \ crashed : wake[e] > now
    /\ AdvanceTime(MeshTime)

NextMesh ==
    \/ MeshAdvanceTime
    \/ \E j \in JoinPlan : MeshJoin(j[1], j[2])
    \/ \E e \in Engines : WorkerLoop(e)
    \/ \E e \in Engines : Tick(e)
    \/ Crash

SpecMesh == InitMesh /\ [][NextMesh]_vars

Leaders == {e \in Engines \ crashed : coordinator_is_leader(inst[e])}

\* Every engine holds an Alive record of every engine.
MeshAllAlive ==
    /\ crashed = {}
    /\ \A e, f \in Engines : StateAt(inst[e], f) = NODE_STATE_ALIVE

\* C1: in a mesh whose engines all know one another as Alive, at most one
\* coordinator is Leader at every moment, whatever the order of ticks,
\* membership events and elections.
C1_AtMostOneLeader == MeshAllAlive => Cardinality(Leaders) <= 1

\* C2: once a, started as main, has crashed and b and c have seen it as not
\* Alive, one of b and c is Leader with a term of at least 2, its
\* on_become_leader invoked exactly once, by the time both have ticked
\* twice (once to stand, once to count the votes) an election window after
\* they saw a down.
C2_LeaderFailover ==
    (trial.late_tick["b"] = 2 /\ trial.late_tick["c"] = 2) =>
        \E e \in {"b", "c"} :
            /\ coordinator_is_leader(inst[e])
            /\ inst[e].coord.term >= 2
            /\ inst[e].coord.become_leader_calls = 1

----------------------------------------------------------------------------
(* Port exhaustion: a manager over [7946, 7948) is asked, time after time, *)
(* to create an instance whose membership port it is to allocate.          *)

ExhaustAttempts == 3    \* the creations the manager is asked for

\* The configurations: the membership port is always allocated, the
\* application port is allocated or given (a port outside the range).
AutoConfigs ==
    [node_id : {""}, swim_port : {0}, ws_port : {0, 8080},
     is_main_node : BOOLEAN, auto_start : BOOLEAN,
     seed_address : {""}, seed_port : {0}]

InitExhaust ==
    /\ InitEngines
    /\ mgr = node_manager_init("srv", DEFAULT_PORT_RANGE_START,
                               DEFAULT_PORT_RANGE_START + 2)
    /\ trial = [step |-> 0,
                auto |-> TRUE,      \* every creation so far had both ports allocated
                given |-> TRUE,     \* every creation so far had its application port given
                ok |-> <<>>,        \* what each creation returned (1: an instance)
                same |-> TRUE]      \* the last creation left the manager as it was

\* What a caller sees of the manager: the instances and the port cursor.
ManagerView(M) ==
    [instances |-> M.instances, instance_count |-> M.instance_count,
     next_available_port |-> M.next_available_port]

ExhaustCreate ==
    /\ trial.step < ExhaustAttempts
    /\ \E config \in AutoConfigs, rnd \in {0, 1} :
         \E M1 \in {node_manager_create_node(MgrBegin, config,
                        [bind_ok |-> TRUE, rnd |-> rnd])} :
            /\ mgr' = M1
            /\ trial' = [step |-> trial.step + 1,
                         auto |-> trial.auto /\ config.ws_port = 0,
                         given |-> trial.given /\ config.ws_port # 0,
                         ok |-> Append(trial.ok, M1.ret),
                         same |-> ManagerView(M1) = ManagerView(mgr)]
    /\ UNCHANGED <<now, inst, wake, crashed, net, sync_counter, observed,
                   silenced, calls>>

NextExhaust ==
    \/ ExhaustCreate

SpecExhaust == InitExhaust /\ [][NextExhaust]_vars

----------------------------------------------------------------------------
(* The coordinator of one engine: it is created once the engine exists,    *)
(* tasks are submitted to it and it is ticked (coordinator_process), while *)
(* the engine joins a seed or leaves. The clock moves by the base of the   *)
(* election timeout, in milliseconds.                                      *)

MaxElectionWindows == 2   \* the clock stops after so many timeout bases
MaxTasks == 3             \* tasks submitted in all
MaxForced == 2            \* calls of coordinator_start_election
MaxTicks == 3             \* calls of coordinator_process

\* The values of rand() % 150 in random_election_timeout.
ElectionRands == {0, ELECTION_TIMEOUT_SPREAD - 1}

\* The values of rand() % 10000 in coordinator_submit_task.
TaskRands == {0, 1}

InitCoord ==
    /\ InitEngines
    /\ mgr = node_manager_init("srv", 0, 0)
    /\ trial = [step |-> 0,
                created |-> FALSE,  \* coordinator_init has been called
                main |-> FALSE,     \* its start_as_main
                ticks |-> 0,        \* calls of coordinator_process so far
                submitted |-> 0,    \* calls of coordinator_submit_task so far
                drained |-> 0,      \* tasks pending at the last tick as Leader
                idle_ticks |-> 0,   \* ticks not as Leader with a task pending
                early_ticks |-> 0,  \* ticks as Follower before the deadline
                forced |-> 0]       \* calls of coordinator_start_election so far

CoordAdvanceTime ==
    /\ now + ELECTION_TIMEOUT_BASE <= MaxElectionWindows * ELECTION_TIMEOUT_BASE
    /\ now' = now + ELECTION_TIMEOUT_BASE
    /\ UNCHANGED <<mgr, trial, inst, wake, crashed, net, sync_counter, observed,
                   silenced, calls>>

CoordCreate ==
    /\ ~trial.created
    /\ \E start_as_main \in BOOLEAN, r \in ElectionRands :
          /\ Commit(Solo, coordinator_init(Begin(Solo, r), start_as_main))
          /\ trial' = [trial EXCEPT !.created = TRUE, !.main = start_as_main]
    /\ UNCHANGED <<mgr, now, wake, crashed, net, sync_counter, observed,
                   silenced, calls>>

CoordSubmit ==
    /\ trial.created
    /\ trial.submitted < MaxTasks
    /\ \E r \in TaskRands :
          Commit(Solo, coordinator_submit_task(Begin(Solo, r)))
    /\ trial' = [trial EXCEPT !.submitted = @ + 1]
    /\ UNCHANGED <<mgr, now, wake, crashed, net, sync_counter, observed,
                   silenced, calls>>

CoordTick ==
    /\ trial.created
    /\ ~inst[Solo].coord.blocked
    /\ trial.ticks < MaxTicks
    /\ \E r \in ElectionRands :
          Commit(Solo, coordinator_process(Begin(Solo, r)))
    /\ trial' = [trial EXCEPT
          !.ticks = @ + 1,
          !.drained = IF coordinator_is_leader(inst[Solo])
                      THEN inst[Solo].coord.pending_count ELSE @,
          !.idle_ticks = IF ~coordinator_is_leader(inst[Solo])
                            /\ inst[Solo].coord.pending_count > 0
                         THEN @ + 1 ELSE @,
          !.early_ticks = IF inst[Solo].coord.state = COORD_STATE_FOLLOWER
                             /\ now <= inst[Solo].coord.election_timeout
                          THEN @ + 1 ELSE @]
    /\ UNCHANGED <<mgr, now, wake, crashed, net, sync_counter, observed,
                   silenced, calls>>

\* coordinator_start_election, called by the application.
CoordElect ==
    /\ trial.created
    /\ ~inst[Solo].coord.blocked
    /\ trial.forced < MaxForced
    /\ \E r \in ElectionRands :
          Commit(Solo, coordinator_start_election(Begin(Solo, r)))
    /\ trial' = [trial EXCEPT !.forced = @ + 1]
    /\ UNCHANGED <<mgr, now, wake, crashed, net, sync_counter, observed,
                   silenced, calls>>

CoordJoin == trial.created /\ Join(Solo)

CoordLeave == trial.created /\ Leave(Solo)

NextCoord ==
    \/ CoordAdvanceTime
    \/ CoordCreate
    \/ CoordSubmit
    \/ CoordTick
    \/ CoordJoin
    \/ CoordLeave

SpecCoord == InitCoord /\ [][NextCoord]_vars

\* The coordinator's elections: no task is submitted, and the application
\* may call coordinator_start_election.
NextElect ==
    \/ CoordAdvanceTime
    \/ CoordCreate
    \/ CoordTick
    \/ CoordElect
    \/ CoordJoin
    \/ CoordLeave

SpecElect == InitCoord /\ [][NextElect]_vars

\* The coordinator's task queue, with an on_task_complete that submits
\* tasks of its own: in a tick the callback does so in its first k calls.
MaxResubmits == 2

TaskTick ==
    /\ trial.created
    /\ ~inst[Solo].coord.blocked
    /\ trial.ticks < MaxTicks
    /\ \E r \in TaskRands, k \in 0..MaxResubmits :
       \E T \in {coordinator_process(
                    [Begin(Solo, r) EXCEPT !.coord.resubmits = k])} :
          /\ trial.submitted + (k - T.coord.resubmits) <= MaxTasks
          /\ Commit(Solo, [T EXCEPT !.coord.resubmits = 0])
          /\ trial' = [trial EXCEPT
                !.ticks = @ + 1,
                !.submitted = @ + (k - T.coord.resubmits),
                !.drained = IF coordinator_is_leader(inst[Solo])
                            THEN inst[Solo].coord.pending_count ELSE @]
    /\ UNCHANGED <<mgr, now, wake, crashed, net, sync_counter, observed,
                   silenced, calls>>

NextTasks ==
    \/ CoordAdvanceTime
    \/ CoordCreate
    \/ CoordSubmit
    \/ TaskTick

SpecTasks == InitCoord /\ [][NextTasks]_vars

\* How many entries of the sequence q are equal to x.
Occurrences(q, x) == Cardinality({k \in 1..Len(q) : q[k] = x})

\* The on_task_complete calls a step has added.
NewCalls(C, D) ==
    SubSeq(D.task_complete_calls, Len(C.task_complete_calls) + 1,
           Len(D.task_complete_calls))

\* C12: a tick of a Leader with n tasks pending leaves no task pending,
\* raises the completed count and tasks_processed by n, and calls
\* on_task_complete once for each drained task, with success = true.
C12_TaskDrain ==
    [][(trial'.ticks # trial.ticks /\ coordinator_is_leader(inst[Solo])) =>
        LET C == inst[Solo].coord
            D == inst'[Solo].coord
            n == C.pending_count
        IN  /\ n = Len(C.pending_tasks)
            /\ D.pending_count = 0
            /\ D.pending_tasks = <<>>
            /\ D.completed_count = C.completed_count + n
            /\ Len(D.completed_tasks) = Len(C.completed_tasks) + n
            /\ D.tasks_processed = C.tasks_processed + n
            /\ Len(D.task_complete_calls) = Len(C.task_complete_calls) + n
            /\ SubSeq(D.task_complete_calls, 1, Len(C.task_complete_calls))
                  = C.task_complete_calls
            /\ \A k \in 1..n :
                  /\ NewCalls(C, D)[k][2] = TRUE
                  /\ Occurrences(NewCalls(C, D),
                                 <<C.pending_tasks[k].task_id, TRUE>>)
                        = Occurrences([j \in 1..n |-> C.pending_tasks[j].task_id],
                                      C.pending_tasks[k].task_id)
    ]_vars

\* A Leader has just drained two tasks in one tick, after an earlier drain.
C12_Witness ==
    /\ coordinator_is_leader(inst[Solo])
    /\ trial.drained = 2
    /\ inst[Solo].coord.pending_count = 0
    /\ inst[Solo].coord.completed_count = 3
    /\ Len(inst[Solo].coord.task_complete_calls) = 3

\* C13: submit_task adds one pending task (at the head, nothing else of the
\* queue touched) in every role; a tick in role Follower or Candidate leaves
\* the pending and completed tasks and the on_task_complete calls as they
\* were, and no step taken in those roles removes or completes a task.
C13_DrainOnlyAsLeader ==
    [][LET C == inst[Solo].coord
           D == inst'[Solo].coord
       IN  /\ (trial'.submitted # trial.submitted) =>
                 /\ C.state \in {COORD_STATE_FOLLOWER, COORD_STATE_CANDIDATE,
                                 COORD_STATE_LEADER}
                 /\ D.state = C.state
                 /\ D.pending_count = C.pending_count + 1
                 /\ Tail(D.pending_tasks) = C.pending_tasks
                 /\ D.completed_tasks = C.completed_tasks
                 /\ D.task_complete_calls = C.task_complete_calls
           /\ (trial'.ticks # trial.ticks /\ ~coordinator_is_leader(inst[Solo])) =>
                 /\ D.pending_tasks = C.pending_tasks
                 /\ D.pending_count = C.pending_count
                 /\ D.completed_tasks = C.completed_tasks
                 /\ D.completed_count = C.completed_count
                 /\ D.tasks_processed = C.tasks_processed
                 /\ D.task_complete_calls = C.task_complete_calls
           /\ ~coordinator_is_leader(inst[Solo]) =>
                 /\ D.pending_count >= C.pending_count
                 /\ D.completed_count = C.completed_count
                 /\ D.task_complete_calls = C.task_complete_calls
    ]_vars

\* A Candidate that was ticked twice with tasks pending still holds the two
\* tasks submitted to it, one while it was Follower.
C13_Witness ==
    /\ inst[Solo].coord.state = COORD_STATE_CANDIDATE
    /\ trial.idle_ticks >= 2
    /\ inst[Solo].coord.pending_count = 2
    /\ inst[Solo].coord.completed_count = 0
    /\ inst[Solo].coord.task_complete_calls = <<>>

\* C14: a coordinator created with start_as_main = true is Leader before
\* any tick, with term 1, leader_id the local node's id, and the engine's
\* local node flagged is_main (from its creation on, through submissions
\* and joins, for as long as the engine has not left the mesh).
C14_MainStartsAsLeader ==
    (/\ trial.created /\ trial.main /\ trial.ticks = 0
     /\ Local(inst[Solo]).state = NODE_STATE_ALIVE) =>
        /\ coordinator_is_leader(inst[Solo])
        /\ inst[Solo].coord.term = 1
        /\ inst[Solo].coord.leader_id = inst[Solo].swim.local_id
        /\ inst[Solo].coord.leader_id = Local(inst[Solo]).id
        /\ Local(inst[Solo]).is_main_node

\* The coordinator was created as main after the clock had moved, and has
\* been given a task but no tick.
C14_Witness ==
    /\ trial.created /\ trial.main /\ trial.ticks = 0
    /\ now > 0
    /\ inst[Solo].coord.pending_count = 1
    /\ coordinator_is_leader(inst[Solo])
    /\ Local(inst[Solo]).state = NODE_STATE_ALIVE

\* C15: a tick of a Follower whose engine holds no record but its own (so
\* that it counts at most one Alive node) leaves it Follower while the clock has not passed election_timeout, and
\* makes it Leader, with leader_id the local id and on_become_leader called
\* once, as soon as the clock has passed it; a coordinator created as
\* Follower changes its role in ticks only.
C15_LoneFollowerElectsItself ==
    [][LET C == inst[Solo].coord
           D == inst'[Solo].coord
       IN  /\ (/\ trial'.ticks # trial.ticks
               /\ C.state = COORD_STATE_FOLLOWER
               /\ inst[Solo].swim.node_count = 1
               /\ swim_get_node_count(inst[Solo], NODE_STATE_ALIVE) <= 1) =>
                 IF now <= C.election_timeout
                 THEN D = C
                 ELSE /\ D.state = COORD_STATE_LEADER
                      /\ D.leader_id = inst[Solo].swim.local_id
                      /\ D.become_leader_calls = C.become_leader_calls + 1
                      /\ D.become_leader_calls = 1
                      /\ D.term = C.term + 1
           /\ (trial.created /\ trial'.ticks = trial.ticks) => D.state = C.state
    ]_vars

\* A coordinator created as Follower was ticked at its deadline, stayed
\* Follower, and became Leader on the tick after.
C15_Witness ==
    /\ trial.created /\ ~trial.main
    /\ trial.early_ticks >= 1
    /\ trial.ticks = trial.early_ticks + 1
    /\ coordinator_is_leader(inst[Solo])
    /\ inst[Solo].coord.leader_id = Solo
    /\ inst[Solo].coord.become_leader_calls = 1
    /\ swim_get_node_count(inst[Solo], NODE_STATE_ALIVE) = 1

----------------------------------------------------------------------------
(* set_main calls on the engine of tests/test_swim.c (test_main_node),     *)
(* with the worker running and frames arriving in between.                 *)

InitMain ==
    /\ InitEngines
    /\ mgr = node_manager_init("srv", 0, 0)
    /\ trial = [step |-> 0,
                seq |-> <<>>,    \* the arguments of the set_main calls so far
                incs |-> <<>>]   \* ctx->incarnation before each of them

MainSet ==
    /\ ~inst[Solo].swim.deadlocked
    /\ calls[Solo] < MaxCalls
    /\ calls' = [calls EXCEPT ![Solo] = @ + 1]
    /\ \E b \in BOOLEAN :
          /\ Commit(Solo, swim_set_main_node(Begin(Solo, 0), b))
          /\ trial' = [trial EXCEPT
                          !.seq = Append(@, b),
                          !.incs = Append(@, inst[Solo].swim.incarnation)]
    /\ UNCHANGED <<mgr, now, wake, crashed, net, sync_counter, observed, silenced>>

NextMain ==
    \/ AdvanceTime(MaxTime)
    \/ Start(Solo)
    \/ Receive(Solo)
    \/ GossipRound(Solo)
    \/ MainSet

SpecMain == InitMain /\ [][NextMain]_vars

\* ctx->incarnation right after the k-th set_main call.
IncarnationAfter(k) ==
    IF k = Len(trial.seq) THEN inst[Solo].swim.incarnation ELSE trial.incs[k + 1]

\* C16: after set_main(b) the local node's is_main flag is b (and stays b
\* whatever frames arrive), and set_main(true) followed by set_main(false)
\* leaves the flag false and the engine's incarnation 2 above its value
\* before the two calls.
C16_SetMain ==
    /\ Len(trial.seq) > 0 =>
          /\ Local(inst[Solo]).is_main_node = trial.seq[Len(trial.seq)]
          /\ inst[Solo].swim.is_main_node = trial.seq[Len(trial.seq)]
    /\ \A k \in 1..(Len(trial.seq) - 1) :
          (trial.seq[k] /\ ~trial.seq[k + 1]) =>
              IncarnationAfter(k + 1) = trial.incs[k] + 2

\* set_main(true) then set_main(false) on an engine that has received a
\* frame.
C16_Witness ==
    /\ trial.seq = <<TRUE, FALSE>>
    /\ ~Local(inst[Solo]).is_main_node
    /\ inst[Solo].swim.incarnation = 3
    /\ inst[Solo].swim.messages_received > 0

----------------------------------------------------------------------------
(* The engine of tests/test_swim.c that no datagram ever reaches           *)
(* (test_local_node, test_statistics): its worker runs gossip rounds and   *)
(* the application sets and clears the main flag.                          *)

MaxIdleTime == 6    \* the clock of the idle engine stops after so many seconds

NextIdle ==
    \/ AdvanceTime(MaxIdleTime)
    \/ Start(Solo)
    \/ GossipRound(Solo)
    \/ MainSet

SpecIdle == InitMain /\ [][NextIdle]_vars

\* C17: an engine that no datagram reaches holds its local node only (one
\* node, Alive; none Dead) and, however many gossip rounds it has run, has
\* sent nothing and counted nothing: messages sent and received,
\* probe_success and probe_failure are 0.
C17_IdleEngine ==
    /\ inst[Solo].swim.node_count = 1
    /\ Len(inst[Solo].swim.nodes) = 1
    /\ Local(inst[Solo]).id = Solo
    /\ swim_get_node_count(inst[Solo], NODE_STATE_ALIVE) = 1
    /\ swim_get_node_count(inst[Solo], NODE_STATE_DEAD) = 0
    /\ inst[Solo].swim.messages_sent = 0
    /\ inst[Solo].swim.messages_received = 0
    /\ inst[Solo].swim.probe_success = 0
    /\ inst[Solo].swim.probe_failure = 0
    /\ inst[Solo].swim.seq_num = 0
    /\ net = <<>>

\* The worker has run a gossip round at 6 s, past every timeout.
C17_Witness ==
    /\ inst[Solo].swim.is_running
    /\ now = 6000
    /\ wake[Solo] = now + SWIM_DEFAULT_INTERVAL

----------------------------------------------------------------------------
(* Joining and leaving: the application joins the seed b and leaves, while *)
(* the worker runs and frames arrive.                                      *)

InitLeave ==
    /\ InitEngines
    /\ mgr = node_manager_init("srv", 0, 0)
    /\ trial = [step |-> 0,
                ops |-> <<>>]    \* the API calls made so far, in order

JoinCall ==
    /\ ~inst[Solo].swim.deadlocked
    /\ calls[Solo] < MaxCalls
    /\ calls' = [calls EXCEPT ![Solo] = @ + 1]
    /\ Commit(Solo, swim_join(Begin(Solo, 0), "b"))
    /\ observed' = [observed EXCEPT ![Solo] = @ \cup {SeedId("b")}]
    /\ trial' = [trial EXCEPT !.ops = Append(@, "join")]
    /\ UNCHANGED <<mgr, now, wake, crashed, net, sync_counter, silenced>>

LeaveCall ==
    /\ ~inst[Solo].swim.deadlocked
    /\ calls[Solo] < MaxCalls
    /\ calls' = [calls EXCEPT ![Solo] = @ + 1]
    /\ \E relock \in BOOLEAN :
          Commit(Solo, swim_leave(Begin(Solo, 0), relock))
    /\ trial' = [trial EXCEPT !.ops = Append(@, "leave")]
    /\ UNCHANGED <<mgr, now, wake, crashed, net, sync_counter, observed,
                   silenced>>

NextLeave ==
    \/ AdvanceTime(MaxTime)
    \/ Start(Solo)
    \/ Receive(Solo)
    \/ GossipRound(Solo)
    \/ JoinCall
    \/ LeaveCall

SpecLeave == InitLeave /\ [][NextLeave]_vars

\* C18: a leave() called on an engine that has joined a seed returns, leaves
\* the local node in state Left, and marks no peer record Dead.
C18_JoinThenLeave ==
    [][(/\ Len(trial'.ops) > Len(trial.ops)
        /\ trial'.ops[Len(trial'.ops)] = "leave"
        /\ \E k \in 1..Len(trial.ops) : trial.ops[k] = "join") =>
          /\ ~inst'[Solo].swim.deadlocked
          /\ Local(inst'[Solo]).state = NODE_STATE_LEFT
          /\ \A i \in 1..Len(inst'[Solo].swim.nodes) :
                inst'[Solo].swim.nodes[i].state = NODE_STATE_DEAD =>
                    /\ i <= Len(inst[Solo].swim.nodes)
                    /\ inst[Solo].swim.nodes[i].state = NODE_STATE_DEAD
    ]_vars

----------------------------------------------------------------------------
(* Two engines, a and b, with their workers started: b joins a, and each   *)
(* worker runs its iterations (receive pump, gossip round, sleep of one    *)
(* gossip interval). No datagram is lost; the two threads run in either    *)
(* order within an interval.                                               *)

MaxPairTicks == 3   \* iterations of each worker
MaxPairTime == 3    \* the clock of the pair stops after so many seconds

Pair == {"a", "b"}

InitPair ==
    /\ now = 0
    /\ inst = [e \in Engines |-> swim_start(swim_init(e, e))]
    /\ wake = [e \in Engines |-> 0]
    /\ crashed = {}
    /\ net = <<>>
    /\ sync_counter = 0
    /\ observed = [e \in Engines |-> {e}]
    /\ silenced = {}
    /\ calls = [e \in Engines |-> 0]
    /\ mgr = node_manager_init("srv", 0, 0)
    /\ trial = [step |-> 0,
                joined |-> FALSE,                 \* b has joined a
                ticks |-> [e \in Engines |-> 0],  \* iterations of each worker
                left |-> FALSE,                   \* b has called swim_leave
                sent_all |-> FALSE,   \* it sent a Sync to each Alive peer
                leave_seqs |-> {},    \* the seq_num of each Sync it sent
                heard |-> FALSE,      \* a has handled one of them
                \* gossip rounds of each engine that had a probe target
                rounds |-> [e \in Engines |-> 0],
                \* the last gossip round: whose it was, whether it had a
                \* probe target, how many Syncs it sent
                round |-> [engine |-> "", target |-> FALSE, syncs |-> 0],
                main_set |-> FALSE]   \* b has called swim_set_main_node(true)

\* The engine after a call, its datagrams handed to the network.
PairCommit(e, S, rest) ==
    \E T \in {S} :
        /\ inst' = [inst EXCEPT ![e] = [T EXCEPT !.tx = <<>>, !.events = <<>>, !.rnd = 0,
                                  !.relock = FALSE]]
        /\ net' = rest \o Sent(T, crashed)

PairJoin ==
    /\ ~trial.joined
    /\ PairCommit("b", swim_join(Begin("b", 0), "a"), net)
    /\ trial' = [trial EXCEPT !.joined = TRUE]
    /\ UNCHANGED <<mgr, now, wake, crashed, sync_counter, observed, silenced,
                   calls>>

\* The Sync datagrams among those a call has sent.
SyncsOf(tx) == SelectSeq(tx, LAMBDA m : m.frame.type = SWIM_MSG_SYNC)

\* One iteration of swim_thread_func: swim_process, swim_gossip_round, usleep.
PairTick(e) ==
    /\ trial.joined
    /\ ~inst[e].swim.deadlocked
    /\ trial.ticks[e] < MaxPairTicks
    /\ now >= wake[e]
    /\ \E S0 \in {swim_process(Begin(e, 0), e, net)} :
          \E S1 \in {swim_check_timeouts(S0)} :
          \E r \in SelectRands(S1) :
          \E t \in {swim_select_random_node(S1, r)} :
          \E T \in {swim_gossip_round(S1, t, sync_counter)} :
            /\ PairCommit(e, T, SelectSeq(net, LAMBDA m : m.to # e))
            /\ sync_counter' = IF t = 0 THEN sync_counter
                               ELSE IF sync_counter + 1 >= SYNC_EVERY THEN 0
                               ELSE sync_counter + 1
            /\ trial' = [trial EXCEPT
                  !.ticks[e] = @ + 1,
                  !.heard = @ \/ \E k \in 1..Len(net) :
                                    /\ net[k].to = e
                                    /\ net[k].frame.type = SWIM_MSG_SYNC
                                    /\ net[k].frame.sender_id = "b"
                                    /\ net[k].frame.seq_num \in trial.leave_seqs,
                  !.rounds[e] = IF t = 0 THEN @ ELSE @ + 1,
                  !.round = [engine |-> e, target |-> t # 0,
                             syncs |-> Len(SyncsOf(T.tx)) - Len(SyncsOf(S1.tx))]]
    /\ wake' = [wake EXCEPT ![e] = now + inst[e].swim.gossip_interval_ms]
    /\ UNCHANGED <<mgr, now, crashed, observed, silenced, calls>>

\* The addresses of the Alive peers engine S holds.
AlivePeers(S) ==
    {S.swim.nodes[i].address :
        i \in {j \in 1..Len(S.swim.nodes) :
                  /\ ~S.swim.nodes[j].is_local
                  /\ S.swim.nodes[j].state = NODE_STATE_ALIVE}}

\* b leaves the mesh; its worker goes on.
PairLeave ==
    /\ trial.joined
    /\ ~trial.left
    /\ ~inst["b"].swim.deadlocked
    /\ \E relock \in BOOLEAN :
          \E T \in {swim_leave(Begin("b", 0), relock)} :
            /\ PairCommit("b", T, net)
            /\ trial' = [trial EXCEPT
                  !.left = TRUE,
                  !.sent_all =
                      /\ ~T.swim.deadlocked
                      /\ \A p \in AlivePeers(inst["b"]) :
                            \E k \in 1..Len(SyncsOf(T.tx)) :
                                SyncsOf(T.tx)[k].to = p,
                  !.leave_seqs = {SyncsOf(T.tx)[k].frame.seq_num :
                                     k \in 1..Len(SyncsOf(T.tx))}]
    /\ UNCHANGED <<mgr, now, wake, crashed, sync_counter, observed, silenced,
                   calls>>

\* The clock moves on by one gossip interval once both workers sleep.
PairAdvanceTime ==
    /\ \A e \in Pair : wake[e] > now
    /\ now + SWIM_DEFAULT_INTERVAL <= MaxPairTime * 1000
    /\ now' = now + SWIM_DEFAULT_INTERVAL
    /\ UNCHANGED <<mgr, trial, inst, wake, crashed, net, sync_counter, observed,
                   silenced, calls>>

NextPair ==
    \/ PairJoin
    \/ PairLeave
    \/ \E e \in Pair : PairTick(e)
    \/ PairAdvanceTime

SpecPair == InitPair /\ [][NextPair]_vars

\* The pair with a main node: b calls swim_set_main_node(true) before it
\* joins a, and does not leave.
PairSetMain ==
    /\ ~trial.main_set
    /\ ~trial.joined
    /\ PairCommit("b", swim_set_main_node(Begin("b", 0), TRUE), net)
    /\ trial' = [trial EXCEPT !.main_set = TRUE]
    /\ UNCHANGED <<mgr, now, wake, crashed, sync_counter, observed, silenced,
                   calls>>

NextFlag ==
    \/ PairSetMain
    \/ PairJoin
    \/ \E e \in Pair : PairTick(e)
    \/ PairAdvanceTime

SpecFlag == InitPair /\ [][NextFlag]_vars

\* C19: once b has joined a and both workers have run 3 iterations, with no
\* datagram lost, a holds a record of b and b a record of a, both Alive and
\* with an incarnation of at least 1.
C19_TwoNodeConvergence ==
    (trial.joined /\ \A e \in Pair : trial.ticks[e] = 3) =>
        /\ StateAt(inst["a"], "b") = NODE_STATE_ALIVE
        /\ StateAt(inst["b"], "a") = NODE_STATE_ALIVE
        /\ IncarnationOf(inst["a"], "b") >= 1
        /\ IncarnationOf(inst["b"], "a") >= 1

\* C20: once b has called leave(), its local node is Left and a final Sync
\* went to every peer it held as Alive; and once a has handled such a Sync,
\* a records b in state Left.
C20_LeaveDisseminated ==
    trial.left =>
        /\ Local(inst["b"]).state = NODE_STATE_LEFT
        /\ trial.sent_all
        /\ trial.heard => StateAt(inst["a"], "b") = NODE_STATE_LEFT

----------------------------------------------------------------------------
(* The wire: engine "a" with its coordinator registered and its worker     *)
(* running. Datagrams of any length reach its socket, well-formed or not,  *)
(* and it runs its gossip rounds; what each operation sends and which node *)
(* events it raises is kept.                                               *)

MaxWire == 3        \* operations watched on the wire

\* A datagram: its length in bytes, what its bytes say (frame, with the
\* update records it holds in full) and the node_count they declare.
Datagram(len, frame, node_count) ==
    [len |-> len, frame |-> frame, node_count |-> node_count]

WireSync(us) ==
    [type |-> SWIM_MSG_SYNC, seq_num |-> 1, sender_id |-> "b",
     incarnation |-> 1, target_id |-> "", source_id |-> "", updates |-> us]

\* The update records on the wire, and in the buffer's stale bytes.
WireUpdates ==
    {u \in Updates : \/ u.incarnation = 2 /\ u.state # BadStateByte
                     \/ u.state = NODE_STATE_SUSPECT}

Datagrams ==
    \* well-formed
    {Datagram(HeaderSize + 64, f, 0) :
        f \in {g \in InFrames : g.type # SWIM_MSG_SYNC /\ g.sender_id = "b"}}
    \cup
    \* a Ping whose sender_id is the empty string
    {Datagram(HeaderSize + 64, [WireSync(<<>>) EXCEPT !.type = SWIM_MSG_PING,
                                                      !.sender_id = ""], 0)}
    \cup
    {Datagram(SyncSize + Len(us) * UpdateSize, WireSync(us), Len(us)) :
        us \in {<<>>} \cup {<<u>> : u \in WireUpdates}}
    \cup
    \* cut short of the header
    {Datagram(HeaderSize - 1, f, 0) :
        f \in {g \in InFrames : g.type = SWIM_MSG_PING /\ g.incarnation = 2
                                /\ g.sender_id = "b"}}
    \cup
    \* a Sync that declares one record more than it holds
    {Datagram(SyncSize + Len(us) * UpdateSize, WireSync(us), Len(us) + 1) :
        us \in {<<>>} \cup {<<u>> : u \in {v \in WireUpdates :
                                              v.state = NODE_STATE_SUSPECT}}}

\* What the buffer holds past the datagram's end.
StaleRecords(dg) ==
    IF dg.node_count > Len(dg.frame.updates)
    THEN {<<u>> : u \in WireUpdates}
    ELSE {<<>>}

Malformed(dg) ==
    \/ dg.len < HeaderSize
    \/ /\ dg.frame.type = SWIM_MSG_SYNC
       /\ dg.len < SyncSize + dg.node_count * UpdateSize

InitWire ==
    /\ now = 0
    /\ inst = [e \in Engines |->
                  IF e = Solo
                  THEN swim_start(coordinator_init(swim_init(e, e), FALSE))
                  ELSE swim_init(e, e)]
    /\ wake = [e \in Engines |-> 0]
    /\ crashed = {}
    /\ net = <<>>
    \* the static counter is the process's, not the engine's: the rounds of
    \* the other engines of the process have left it anywhere below SYNC_EVERY
    /\ sync_counter \in {0, SYNC_EVERY - 1}
    /\ observed = [e \in Engines |-> {e}]
    /\ silenced = {}
    /\ calls = [e \in Engines |-> 0]
    /\ mgr = node_manager_init("srv", 0, 0)
    /\ trial = [step |-> 0, op |-> "init", dg |-> Datagram(0, WireSync(<<>>), 0),
                before |-> inst[Solo], scanned |-> inst[Solo], target |-> 0,
                sent |-> <<>>, events |-> <<>>, returned |-> TRUE,
                last_seq |-> 0]

\* The sequence numbers of the frames of tx that the engine originated
\* (an Ack carries the number of the Ping it answers).
OriginatedSeqs(tx) ==
    {tx[k].frame.seq_num : k \in {j \in 1..Len(tx) : tx[j].frame.type # SWIM_MSG_ACK}}

\* The operation op has taken the engine from `before` to T.
WireCommit(op, dg, before, scanned, target, T) ==
    /\ Commit(Solo, T)
    /\ trial' = [step |-> trial.step + 1, op |-> op, dg |-> dg,
                 before |-> before, scanned |-> scanned, target |-> target,
                 sent |-> T.tx, events |-> T.events,
                 \* the thread has not blocked in the operation
                 returned |-> T.swim.deadlocked = before.swim.deadlocked,
                 \* the highest sequence number originated so far
                 last_seq |-> CHOOSE m \in OriginatedSeqs(T.tx) \cup {trial.last_seq} :
                                 \A n \in OriginatedSeqs(T.tx) \cup {trial.last_seq} :
                                     n <= m]

\* swim_process in the worker's loop: one datagram is received and handled.
WireReceive ==
    /\ trial.step < MaxWire
    /\ inst[Solo].swim.is_running
    /\ ~inst[Solo].swim.deadlocked
    /\ \E dg \in Datagrams : \E stale \in StaleRecords(dg) :
         \E T \in {swim_handle_datagram(Begin(Solo, 0), IdAddr(dg.frame.sender_id),
                                        dg, stale)} :
              WireCommit("receive", dg, inst[Solo], inst[Solo], 0, T)
    /\ UNCHANGED <<now, wake, crashed, net, sync_counter, observed,
                   silenced, calls, mgr>>

\* swim_gossip_round, then the worker's usleep.
WireRound ==
    /\ trial.step < MaxWire
    /\ inst[Solo].swim.is_running
    /\ ~inst[Solo].swim.deadlocked
    /\ now >= wake[Solo]
    /\ \E relock \in BOOLEAN :
       \E S1 \in {swim_check_timeouts([Begin(Solo, 0) EXCEPT !.relock = relock])} :
       \E r \in SelectRands(S1) :
         \E t \in {swim_select_random_node(S1, r)} :
           \E T \in {swim_gossip_round(S1, t, sync_counter)} :
              /\ WireCommit("round", trial.dg, inst[Solo], S1, t, T)
              /\ sync_counter' = IF t = 0 THEN sync_counter
                                 ELSE IF sync_counter + 1 >= SYNC_EVERY THEN 0
                                 ELSE sync_counter + 1
    /\ wake' = [wake EXCEPT ![Solo] = now + inst[Solo].swim.gossip_interval_ms]
    /\ UNCHANGED <<now, crashed, net, observed, silenced, calls, mgr>>

\* A gossip round of the worker while the thread that drives the manager's
\* tick is in swim_process on the same engine (node_manager_process), and
\* handles a PingReq for a node the engine holds. Both threads come to
\* ++ctx->seq_num in swim_send_ping, which no lock guards: here the worker
\* has read seq_num, the other thread sends its Ping, and the worker writes
\* seq_num back and sends its own.
WireRoundRace ==
    /\ trial.step < MaxWire
    /\ inst[Solo].swim.is_running
    /\ ~inst[Solo].swim.deadlocked
    /\ now >= wake[Solo]
    /\ \E dg \in {d \in Datagrams : /\ d.frame.type = SWIM_MSG_PING_REQ
                                     /\ swim_find_node(inst[Solo], d.frame.sender_id) # 0
                                     /\ swim_find_node(inst[Solo], d.frame.target_id) # 0} :
       \E relock \in BOOLEAN :
       \E S1 \in {swim_check_timeouts([Begin(Solo, 0) EXCEPT !.relock = relock])} :
       \E r \in SelectRands(S1) :
         \E t \in {swim_select_random_node(S1, r)} :
           \E S2 \in {swim_handle_datagram(S1, IdAddr(dg.frame.sender_id), dg, <<>>)} :
             \E T \in {swim_gossip_round(
                           [S2 EXCEPT !.swim.seq_num = S1.swim.seq_num],
                           t, sync_counter)} :
              /\ t # 0
              /\ WireCommit("race", dg, inst[Solo], S1, t, T)
              /\ sync_counter' = IF sync_counter + 1 >= SYNC_EVERY THEN 0
                                 ELSE sync_counter + 1
    /\ wake' = [wake EXCEPT ![Solo] = now + inst[Solo].swim.gossip_interval_ms]
    /\ UNCHANGED <<now, crashed, net, observed, silenced, calls, mgr>>

\* swim_stop: is_running is cleared and the worker joined. The worker
\* leaves its loop at the next test of is_running, unless it has blocked in
\* the iteration in progress: then pthread_join does not return.
WireStop ==
    /\ trial.step < MaxWire
    /\ inst[Solo].swim.is_running
    /\ \E T \in {swim_stop(Begin(Solo, 0))} :
          /\ Commit(Solo, T)
          /\ trial' = [trial EXCEPT !.step = @ + 1, !.op = "stop",
                                    !.before = inst[Solo],
                                    !.sent = T.tx, !.events = T.events,
                                    !.returned = ~T.swim.deadlocked]
    /\ UNCHANGED <<now, wake, crashed, net, sync_counter, observed,
                   silenced, calls, mgr>>

NextWire ==
    \/ AdvanceTime(MaxTime)
    \/ WireReceive
    \/ WireRound
    \/ WireRoundRace
    \/ WireStop

SpecWire == InitWire /\ [][NextWire]_vars

\* The membership table as the claim lists it: the records held, with
\* their states, incarnations and is_main flags.
Table(S) ==
    {[id |-> S.swim.nodes[i].id, state |-> S.swim.nodes[i].state,
      incarnation |-> S.swim.nodes[i].incarnation,
      is_main_node |-> S.swim.nodes[i].is_main_node] :
        i \in 1..Len(S.swim.nodes)}

\* C21: a malformed datagram (shorter than the fixed header, or a Sync
\* whose node_count declares more update records than the datagram holds)
\* leaves the membership table as it was and raises no node event.
C21_MalformedDropped ==
    (trial.op = "receive" /\ Malformed(trial.dg)) =>
        /\ Table(inst[Solo]) = Table(trial.before)
        /\ trial.events = <<>>

\* C21, for the datagram shorter than the fixed header alone: it changes
\* nothing at all, the counters included.
C21_ShortDropped ==
    (trial.op = "receive" /\ trial.dg.len < HeaderSize) =>
        /\ inst[Solo] = trial.before
        /\ trial.events = <<>> /\ trial.sent = <<>>

----------------------------------------------------------------------------
(* The manager in use: one thread creates, starts, stops and removes       *)
(* instances n1 and n2, by ids the manager owns and by ids it does not,    *)
(* while a second thread walks the instance list (node_manager_process,    *)
(* node_manager_start_all or node_manager_stop_all), one instance at a     *)
(* step.                                                                   *)

MaxManagerCalls == 3    \* calls the first thread makes
MaxWalks == 1           \* walks the second thread begins

ManagerIds == {"n1", "n2"}

ManagerConfig(id, auto) ==
    [node_id |-> id, swim_port |-> 0, ws_port |-> 0, is_main_node |-> FALSE,
     auto_start |-> auto, seed_address |-> "", seed_port |-> 0]

\* walk: the second thread's walk, kind "" when it is in none; node is the
\* id of the instance its pointer is at ("" for NULL).
\* freed: id of an instance removed and freed -> the id its next pointer
\* named when it was freed ("" for NULL).
InitManager ==
    /\ InitEngines
    /\ mgr = node_manager_init("srv", 0, 7950)
    /\ trial = [step |-> 0, op |-> "init", id |-> "", before |-> mgr,
                walks |-> 0, walk |-> [kind |-> "", node |-> ""],
                freed |-> <<>>, stale_read |-> FALSE]

\* The id of the instance after the one with this id in the list.
NextInList(M, id) ==
    LET i == node_manager_get_node(M, id)
    IN  IF i = 0 \/ i = Len(M.instances) THEN "" ELSE M.instances[i + 1].id

ManagerCall(op, id) ==
    [trial EXCEPT !.step = @ + 1, !.op = op, !.id = id, !.before = mgr]

ManagerCreate ==
    /\ trial.step < MaxManagerCalls
    /\ \E id \in ManagerIds, auto \in BOOLEAN :
          /\ node_manager_get_node(mgr, id) = 0
          /\ id \notin {trial.freed[k][1] : k \in 1..Len(trial.freed)}
          /\ mgr' = node_manager_create_node(MgrBegin, ManagerConfig(id, auto),
                        [bind_ok |-> TRUE, rnd |-> 0])
          /\ trial' = ManagerCall("create", id)
    /\ UNCHANGED <<now, inst, wake, crashed, net, sync_counter, observed,
                   silenced, calls>>

ManagerStart ==
    /\ trial.step < MaxManagerCalls
    /\ \E id \in ManagerIds :
          /\ mgr' = node_manager_start_node(MgrBegin, id)
          /\ trial' = ManagerCall("start", id)
    /\ UNCHANGED <<now, inst, wake, crashed, net, sync_counter, observed,
                   silenced, calls>>

ManagerStop ==
    /\ trial.step < MaxManagerCalls
    /\ \E id \in ManagerIds, relock \in BOOLEAN :
          /\ mgr' = node_manager_stop_node(MgrBegin, id, relock)
          /\ trial' = ManagerCall("stop", id)
    /\ UNCHANGED <<now, inst, wake, crashed, net, sync_counter, observed,
                   silenced, calls>>

ManagerRemove ==
    /\ trial.step < MaxManagerCalls
    /\ \E id \in ManagerIds, relock \in BOOLEAN :
          /\ mgr' = node_manager_remove_node(MgrBegin, id, relock)
          /\ trial' = [ManagerCall("remove", id) EXCEPT
                          !.freed = IF node_manager_get_node(mgr, id) # 0
                                       /\ node_manager_get_node(mgr', id) = 0
                                    THEN Append(@, <<id, NextInList(mgr, id)>>)
                                    ELSE @]
    /\ UNCHANGED <<now, inst, wake, crashed, net, sync_counter, observed,
                   silenced, calls>>

\* The head of a walk: mgr->instances is read with the lock held, and the
\* lock is given up.
WalkBegin(kind) ==
    /\ trial.walk.kind = ""
    /\ trial.walks < MaxWalks
    /\ mgr.instances # <<>>
    /\ trial' = [trial EXCEPT !.walks = @ + 1,
                              !.walk = [kind |-> kind, node |-> mgr.instances[1].id]]
    /\ UNCHANGED <<now, inst, wake, crashed, net, sync_counter, observed,
                   silenced, calls, mgr>>

\* Where a walk goes from the instance with this id.
WalkTo(next) ==
    IF next = "" THEN [kind |-> "", node |-> ""]
    ELSE [kind |-> trial.walk.kind, node |-> next]

\* One turn of the walk's while loop, made without the lock: the body for
\* the instance the pointer is at, then node = node->next. An instance that
\* has been freed is read all the same: what is read is what the freed
\* memory holds, its old content (the walk goes on from the old next
\* pointer) or anything else (the walk ends, or the thread with it).
WalkStep ==
    /\ trial.walk.kind # ""
    /\ LET id == trial.walk.node
           k == {j \in 1..Len(trial.freed) : trial.freed[j][1] = id}
       IN  IF k # {}
           THEN /\ \E next \in {"", trial.freed[CHOOSE j \in k : TRUE][2]} :
                      trial' = [trial EXCEPT !.stale_read = TRUE,
                                             !.walk = WalkTo(next)]
                /\ mgr' = mgr
           ELSE /\ trial' = [trial EXCEPT !.walk = WalkTo(NextInList(mgr, id))]
                /\ \E relock \in BOOLEAN :
                     LET i == node_manager_get_node(mgr, id)
                     IN  mgr' =
                         CASE trial.walk.kind = "start_all" ->
                                  node_manager_start_node(MgrBegin, id)
                           [] trial.walk.kind = "stop_all" ->
                                  node_manager_stop_node(MgrBegin, id, relock)
                           [] OTHER ->
                                  IF mgr.instances[i].is_running
                                  THEN [mgr EXCEPT !.instances[i].S =
                                           [coordinator_process(@)
                                               EXCEPT !.tx = <<>>, !.events = <<>>]]
                                  ELSE mgr
    /\ UNCHANGED <<now, inst, wake, crashed, net, sync_counter, observed,
                   silenced, calls>>

NextManager ==
    \/ AdvanceTime(MaxTime)
    \/ ManagerCreate
    \/ ManagerStart
    \/ ManagerStop
    \/ ManagerRemove
    \/ WalkBegin("process")
    \/ WalkBegin("start_all")
    \/ WalkBegin("stop_all")
    \/ WalkStep

SpecManager == InitManager /\ [][NextManager]_vars

\* The call last made is one the claim calls misuse: start of a running
\* instance, start or stop of an unknown id, stop of an instance that is
\* not running, remove of an unknown id.
Misuse ==
    LET i == node_manager_get_node(trial.before, trial.id)
    IN  \/ trial.op = "start" /\ (i = 0 \/ trial.before.instances[i].is_running)
        \/ trial.op = "stop" /\ (i = 0 \/ ~trial.before.instances[i].is_running)
        \/ trial.op = "remove" /\ i = 0

\* C22: a misused call returns a status (0 for an instance that is already
\* in the state asked for, -1 for an unknown id) and changes nothing: the
\* instance list with every instance's running flag, start time, uptime and
\* engine, the instance count and the port cursor are as they were.
C22_MisuseChangesNothing ==
    [][(Misuse' /\ trial'.step # trial.step) =>
          /\ mgr'.instances = mgr.instances
          /\ mgr'.instance_count = mgr.instance_count
          /\ mgr'.next_available_port = mgr.next_available_port
          /\ mgr'.ret = IF node_manager_get_node(mgr, trial'.id) = 0
                        THEN -1 ELSE 0]_vars

C22_Witness ==
    /\ Misuse
    /\ trial.op = "start"
    /\ node_manager_get_node(mgr, trial.id) # 0
    /\ mgr.instances[node_manager_get_node(mgr, trial.id)].start_time < TimeNow

\* C24: no thread reads or calls into an instance that has been removed
\* and freed, however remove(node_id) interleaves with a walk of the
\* instance list by tick, start_all or stop_all.
C24_NoReadOfFreedInstance == ~trial.stale_read

\* C25: stop() on a running engine terminates, whatever node events the
\* worker's last round has raised: the call returns, with is_running clear,
\* and the worker runs no round and no receive pump after it
\* (messages_received, messages_sent and seq_num stay as stop() left them).
C25_StopTerminates ==
    /\ [](trial.op = "stop" => trial.returned /\ ~inst[Solo].swim.is_running)
    /\ [][(trial.op = "stop" /\ trial'.op = "stop") =>
             inst'[Solo] = inst[Solo]]_vars

\* C23: no thread blocks on an engine's mutex that it holds itself: the
\* engine's operations, leave() with an Alive peer among them, complete.
C23_NoSelfDeadlock == ~inst[Solo].swim.deadlocked

----------------------------------------------------------------------------
(* Concurrent creates: three threads call node_manager_create_node on one  *)
(* manager, time after time. A call tests instance_count with the lock     *)
(* held, gives the lock up, and makes and inserts its instance afterwards. *)

MaxCreateCalls == 19    \* create calls the threads begin, all in all

Creators == {1, 2, 3}

CreateConfig ==
    [node_id |-> "", swim_port |-> 0, ws_port |-> 0, is_main_node |-> FALSE,
     auto_start |-> FALSE, seed_address |-> "", seed_port |-> 0]

\* pc: where each thread is, "out" of a call or "past" the test of a call;
\* refused: the calls that the test has turned down, each with the
\* instance_count it found.
InitCreate ==
    /\ InitEngines
    /\ mgr = node_manager_init("srv", DEFAULT_PORT_RANGE_START,
                               DEFAULT_PORT_RANGE_START + DEFAULT_PORT_RANGE_SIZE)
    /\ trial = [step |-> 0, pc |-> [t \in Creators |-> "out"], refused |-> {}]

\* mgr_lock; the test of instance_count; mgr_unlock.
CreateCheck(t) ==
    /\ trial.pc[t] = "out"
    /\ trial.step < MaxCreateCalls
    /\ IF mgr.instance_count >= mgr.max_instances
       THEN /\ mgr' = [MgrBegin EXCEPT !.ret = 0]
            /\ trial' = [trial EXCEPT !.step = @ + 1,
                                      !.refused = @ \cup {mgr.instance_count}]
       ELSE /\ mgr' = mgr
            /\ trial' = [trial EXCEPT !.step = @ + 1, !.pc[t] = "past"]
    /\ UNCHANGED <<now, inst, wake, crashed, net, sync_counter, observed,
                   silenced, calls>>

\* The rest of the call: the ports, the engine, the coordinator, and the
\* insertion with the lock held again.
CreateInsert(t) ==
    /\ trial.pc[t] = "past"
    /\ mgr' = node_manager_create_unchecked(MgrBegin, CreateConfig,
                  [bind_ok |-> TRUE, rnd |-> 0])
    /\ trial' = [trial EXCEPT !.pc[t] = "out"]
    /\ UNCHANGED <<now, inst, wake, crashed, net, sync_counter, observed,
                   silenced, calls>>

NextCreate ==
    \/ \E t \in Creators : CreateCheck(t)
    \/ \E t \in Creators : CreateInsert(t)

SpecCreate == InitCreate /\ [][NextCreate]_vars

\* C26: the manager never owns more than 16 instances, concurrent creates
\* included, and a create attempted while 16 instances exist fails without
\* adding one.
C26_AtMostSixteenInstances ==
    /\ mgr.instance_count <= MAX_NODES_PER_SERVER
    /\ Len(mgr.instances) <= MAX_NODES_PER_SERVER
    /\ trial.refused \subseteq {MAX_NODES_PER_SERVER}

\* An election has begun in the step: the follower's deadline had passed at
\* a tick, the application forced one, or the engine left while the local
\* node was the leader (the event of the local node's change to Left).
ElectionBegun ==
    \/ /\ trial'.ticks # trial.ticks
       /\ inst[Solo].coord.state = COORD_STATE_FOLLOWER
       /\ now > inst[Solo].coord.election_timeout
    \/ trial'.forced # trial.forced
    \/ /\ Local(inst[Solo]).state # NODE_STATE_LEFT
       /\ Local(inst'[Solo]).state = NODE_STATE_LEFT
       /\ inst[Solo].coord.leader_id = inst[Solo].swim.local_id
       /\ trial.created

\* C27: the term is 1 when the coordinator is created and never decreases;
\* every election begun (by the follower's timeout, by the leader's failure
\* event, or forced) raises it by exactly 1, sets votes_received to 1 and
\* the role to Candidate, or at once to Leader when at most one node is
\* Alive; a step that begins no election leaves the term as it is.
C27_TermAndElections ==
    [][/\ (~trial.created /\ trial'.created) => inst'[Solo].coord.term = 1
       /\ trial.created =>
            /\ inst'[Solo].coord.term >= inst[Solo].coord.term
            /\ ElectionBegun =>
                 /\ inst'[Solo].coord.term = inst[Solo].coord.term + 1
                 /\ inst'[Solo].coord.votes_received = 1
                 /\ inst'[Solo].coord.state \in
                        {COORD_STATE_CANDIDATE, COORD_STATE_LEADER}
                 /\ ~inst'[Solo].coord.blocked =>
                      (inst'[Solo].coord.state = COORD_STATE_LEADER
                         <=> swim_get_node_count(inst'[Solo], NODE_STATE_ALIVE) <= 1)
            /\ ~ElectionBegun =>
                 inst'[Solo].coord.term = inst[Solo].coord.term]_vars

\* A forced election has taken a Leader with a peer Alive to term 3.
C27_Witness ==
    /\ trial.forced = 2
    /\ inst[Solo].coord.term = 3
    /\ inst[Solo].coord.state = COORD_STATE_CANDIDATE
    /\ inst[Solo].coord.become_leader_calls > 0

\* The operation last made on the wire raised an event about the node that
\* was the coordinator's leader_id, with a new state other than Alive.
LeaderEvent ==
    \E k \in 1..Len(trial.events) :
        /\ trial.events[k][1] = trial.before.coord.leader_id
        /\ trial.events[k][3] # NODE_STATE_ALIVE

\* C28: a membership event begins an election exactly when the node it
\* concerns is the coordinator's leader_id and the new state is not Alive:
\* then the term goes up by one, with one vote, as Candidate or Leader;
\* an operation whose events are all about other nodes, or have Alive as
\* their new state, leaves role, term and votes_received as they were.
C28_ElectionOnLeaderEventOnly ==
    trial.op \in {"receive", "round"} =>
        IF LeaderEvent
        THEN /\ inst[Solo].coord.term = trial.before.coord.term + 1
             /\ inst[Solo].coord.votes_received = 1
             /\ inst[Solo].coord.state \in {COORD_STATE_CANDIDATE, COORD_STATE_LEADER}
        ELSE /\ inst[Solo].coord.state = trial.before.coord.state
             /\ inst[Solo].coord.term = trial.before.coord.term
             /\ inst[Solo].coord.votes_received = trial.before.coord.votes_received

\* A round's scan has made the leader's record Suspect and an election has
\* begun, after an operation that raised an event with Alive as new state.
C28_Witness ==
    /\ trial.op = "round"
    /\ LeaderEvent
    /\ inst[Solo].coord.term = 2
    /\ inst[Solo].swim.node_count = 3

\* The nodes a round may probe, in the table as the round's scan left it.
Probeable ==
    {i \in 1..Len(trial.scanned.swim.nodes) :
        /\ ~trial.scanned.swim.nodes[i].is_local
        /\ trial.scanned.swim.nodes[i].id # trial.scanned.swim.local_id
        /\ trial.scanned.swim.nodes[i].state \in {NODE_STATE_ALIVE, NODE_STATE_SUSPECT}}

\* C29: what a gossip round sends is a Ping, with a Sync after it when one
\* is due, to one node that is not the local one and is Alive or Suspect
\* when the round selects it; a round that finds no such node sends nothing.
C29_RoundProbesEligibleOnly ==
    trial.op = "round" =>
        /\ Probeable = {} => trial.sent = <<>>
        /\ trial.sent # <<>> =>
             /\ trial.target \in Probeable
             /\ trial.sent[1].frame.type = SWIM_MSG_PING
             /\ trial.sent[1].frame.target_id = trial.scanned.swim.nodes[trial.target].id
             /\ \A k \in 1..Len(trial.sent) :
                  /\ trial.sent[k].to = trial.scanned.swim.nodes[trial.target].address
                  /\ k > 1 => trial.sent[k].frame.type = SWIM_MSG_SYNC
             /\ Len(trial.sent) <= 2

\* A round has sent its Ping and a Sync to a Suspect node while it held a
\* Dead or Left one.
C29_Witness ==
    /\ trial.op = "round"
    /\ Len(trial.sent) = 2
    /\ trial.scanned.swim.nodes[trial.target].state = NODE_STATE_SUSPECT
    /\ \E i \in 1..Len(trial.scanned.swim.nodes) :
          trial.scanned.swim.nodes[i].state \in {NODE_STATE_DEAD, NODE_STATE_LEFT}

\* The Acks among the frames the operation last made has sent.
AcksSent ==
    {k \in 1..Len(trial.sent) : trial.sent[k].frame.type = SWIM_MSG_ACK}

\* C30, the answer to a Ping: a Ping the engine receives is answered with
\* exactly one Ack, which names the Ping's sender as its target, goes to the
\* address the engine holds for it, and carries the Ping's sequence number.
C30_PingAnswered ==
    (/\ trial.op = "receive"
     /\ trial.dg.len >= HeaderSize
     /\ trial.dg.frame.type = SWIM_MSG_PING) =>
        /\ Cardinality(AcksSent) = 1
        /\ Len(trial.sent) = 1
        /\ trial.sent[1].frame.seq_num = trial.dg.frame.seq_num
        /\ trial.sent[1].frame.target_id = trial.dg.frame.sender_id
        /\ trial.sent[1].to =
              inst[Solo].swim.nodes[swim_find_node(inst[Solo],
                                                   trial.dg.frame.sender_id)].address

\* C30: every Ping is answered so, and each Ping, PingReq and Sync that an
\* engine originates carries a sequence number greater than every one it
\* originated before.
C30_AckAndSequence ==
    /\ []C30_PingAnswered
    /\ [][trial'.step # trial.step =>
            /\ \A n \in OriginatedSeqs(trial'.sent) : n > trial.last_seq
            /\ \A j, k \in 1..Len(trial'.sent) :
                 (/\ j < k
                  /\ trial'.sent[j].frame.type # SWIM_MSG_ACK
                  /\ trial'.sent[k].frame.type # SWIM_MSG_ACK) =>
                     trial'.sent[j].frame.seq_num < trial'.sent[k].frame.seq_num]_vars

----------------------------------------------------------------------------
(* The sender refresh on the wire (SpecWire) *)

\* The engine has just handled a well-formed datagram of one of these types.
Handled(types) ==
    /\ trial.op = "receive"
    /\ ~Malformed(trial.dg)
    /\ trial.dg.frame.sender_id # ""
    /\ trial.dg.frame.type \in types

\* The incarnation held for id before the datagram; a record that
\* swim_create_node makes starts at 1.
HeldIncarnation(id) ==
    IF swim_find_node(trial.before, id) = 0 THEN 1
    ELSE trial.before.swim.nodes[swim_find_node(trial.before, id)].incarnation

\* C31: after a well-formed Ping, PingReq or Ack from s the engine holds a
\* record of s that is Alive and whose incarnation is the greater of the one
\* held before and the header's; an Ack adds one to probe_success; a Sync
\* from a sender not held, with no record of the sender among its updates,
\* leaves the sender not held.
C31_SenderRefresh ==
    /\ Handled({SWIM_MSG_PING, SWIM_MSG_PING_REQ, SWIM_MSG_ACK}) =>
          LET s == trial.dg.frame.sender_id
              i == swim_find_node(inst[Solo], s)
              h == trial.dg.frame.incarnation
          IN  /\ i # 0
              /\ inst[Solo].swim.nodes[i].state = NODE_STATE_ALIVE
              /\ inst[Solo].swim.nodes[i].incarnation =
                    IF h > HeldIncarnation(s) THEN h ELSE HeldIncarnation(s)
              /\ inst[Solo].swim.probe_success =
                    trial.before.swim.probe_success
                    + (IF trial.dg.frame.type = SWIM_MSG_ACK THEN 1 ELSE 0)
    /\ (/\ Handled({SWIM_MSG_SYNC})
        /\ swim_find_node(trial.before, trial.dg.frame.sender_id) = 0
        /\ \A k \in 1..Len(trial.dg.frame.updates) :
              trial.dg.frame.updates[k].id # trial.dg.frame.sender_id) =>
          swim_find_node(inst[Solo], trial.dg.frame.sender_id) = 0

\* An Ack with incarnation 1 has come from a sender held as Dead or Left
\* with incarnation 2.
C31_Witness ==
    /\ Handled({SWIM_MSG_ACK})
    /\ trial.dg.frame.incarnation = 1
    /\ LET j == swim_find_node(trial.before, trial.dg.frame.sender_id)
       IN  /\ j # 0
           /\ trial.before.swim.nodes[j].state \in {NODE_STATE_DEAD, NODE_STATE_LEFT}
           /\ trial.before.swim.nodes[j].incarnation = 2
    /\ inst[Solo].swim.probe_success = 1

----------------------------------------------------------------------------
(* The cadence of the Syncs (SpecPair) *)

\* C32: an engine's gossip round sends one Sync when it is the engine's
\* 5th, 10th, ... round with a probe target, and none otherwise, whatever
\* the rounds of the other engine of the process.
C32_SyncEveryFifthRound ==
    trial.round.engine # "" =>
        trial.round.syncs =
            IF /\ trial.round.target
               /\ trial.rounds[trial.round.engine] % SYNC_EVERY = 0
            THEN 1 ELSE 0

----------------------------------------------------------------------------
(* The node events on the wire (SpecWire) *)

\* C33: every call of on_node_event(node, old_state, new_state) is made with
\* the node's record in new_state, and with an old_state other than
\* new_state; the call for a record created from a Sync is one of them.
C33_NoSpeculativeEvents ==
    \A k \in 1..Len(trial.events) :
        /\ trial.events[k][4] = trial.events[k][3]
        /\ trial.events[k][2] # trial.events[k][3]

----------------------------------------------------------------------------
(* The default port range (SpecPorts) *)

\* C34: a manager initialised with (server_id, 0, 0) has the range
\* [7946, 8046), and an allocate_port call that finds it as it was
\* initialised (no port held, the cursor at the start) returns 7946.
C34_DefaultPortRange ==
    trial.range = <<0, 0>> =>
        /\ mgr.port_range_start = DEFAULT_PORT_RANGE_START
        /\ mgr.port_range_end = DEFAULT_PORT_RANGE_START + DEFAULT_PORT_RANGE_SIZE
        /\ \A k \in 1..Len(mgr.allocs) :
              (/\ mgr.allocs[k].held = {}
               /\ mgr.allocs[k].cursor = mgr.port_range_start) =>
                  mgr.allocs[k].port = DEFAULT_PORT_RANGE_START

----------------------------------------------------------------------------
(* The accounting of the task queue (SpecTasks) *)

\* C35: pending_count is the number of tasks in the pending list, and
\* pending_count + completed_count the number of coordinator_submit_task
\* calls that returned 0, those made from inside on_task_complete during a
\* Leader's drain among them.
C35_TaskAccounting ==
    /\ inst[Solo].coord.pending_count = Len(inst[Solo].coord.pending_tasks)
    /\ inst[Solo].coord.pending_count + inst[Solo].coord.completed_count
          = trial.submitted

----------------------------------------------------------------------------
(* The main-node mirror (SpecElect) *)

\* C36: once the coordinator is created, its is_main_node flag, the
\* engine's is_main_node flag and that of the engine's local node are set
\* exactly when the coordinator's role is Leader.
C36_MainMirrorsRole ==
    trial.created =>
        /\ inst[Solo].coord.is_main_node <=> coordinator_is_leader(inst[Solo])
        /\ inst[Solo].swim.is_main_node <=> coordinator_is_leader(inst[Solo])
        /\ Local(inst[Solo]).is_main_node <=> coordinator_is_leader(inst[Solo])

----------------------------------------------------------------------------
(* The main flag between two engines (SpecFlag) *)

\* The records of a Sync frame that are about the frame's sender.
OwnRecords(frame) ==
    {k \in 1..Len(frame.updates) : frame.updates[k].id = frame.sender_id}

\* C37: once b has called set_main(true) and then joined a (a Ping and then
\* a Sync from b are on their way to a) and a's worker has handled them, a's
\* record of b has is_main_node set; and in every Sync in flight the
\* incarnation of the sender's own record is the incarnation of the header.
C37_MainFlagPropagates ==
    /\ (trial.main_set /\ trial.joined /\ trial.ticks["a"] >= 1) =>
          /\ swim_find_node(inst["a"], "b") # 0
          /\ inst["a"].swim.nodes[swim_find_node(inst["a"], "b")].is_main_node
    /\ \A m \in 1..Len(net) :
          net[m].frame.type = SWIM_MSG_SYNC =>
              \A k \in OwnRecords(net[m].frame) :
                  net[m].frame.updates[k].incarnation = net[m].frame.incarnation

----------------------------------------------------------------------------
(* Three responsive engines (SpecTrio): a, b and c, each in a process of   *)
(* its own, with their workers started; b joins a, c joins a and b, and    *)
(* then every worker runs one iteration a second (receive pump, gossip     *)
(* round with whichever target rand() selects, sleep). No datagram is      *)
(* lost and no process stops: every Ping is answered with an Ack in the    *)
(* next iteration of the engine it reaches.                                *)

MaxTrioTime == 6    \* the clock of the three stops after so many seconds

\* The values rand() yields in the selections of each engine: a and c pick
\* either of the first two eligible nodes, b the first.
TrioRands(e) == IF e = "b" THEN {0} ELSE {0, 1}

InitTrio ==
    /\ now = 0
    /\ inst = [e \in Engines |-> swim_start(swim_init(e, e))]
    /\ wake = [e \in Engines |-> 0]
    /\ crashed = {}
    /\ net = <<>>
    /\ sync_counter = [e \in Engines |-> 0]
    /\ observed = [e \in Engines |-> {e}]
    /\ silenced = {}
    /\ calls = [e \in Engines |-> 0]
    /\ mgr = node_manager_init("srv", 0, 0)
    /\ trial = [step |-> 0, joins |-> {}]   \* the swim_join calls made

TrioCommit(e, S, rest) ==
    \E T \in {S} :
        /\ inst' = [inst EXCEPT ![e] = [T EXCEPT !.tx = <<>>, !.events = <<>>,
                                                 !.rnd = 0, !.relock = FALSE]]
        /\ net' = rest \o T.tx

TrioJoin(e, address) ==
    /\ <<e, address>> \notin trial.joins
    /\ TrioCommit(e, swim_join(Begin(e, 0), address), net)
    /\ trial' = [trial EXCEPT !.joins = @ \cup {<<e, address>>}]
    /\ UNCHANGED <<mgr, now, wake, crashed, sync_counter, observed, silenced,
                   calls>>

\* One iteration of swim_thread_func: swim_process, swim_gossip_round, usleep.
TrioLoop(e) ==
    /\ trial.joins = JoinPlan
    /\ now >= wake[e]
    /\ \A f \in Engines : Before(f, e) => wake[f] > now
    /\ \E S0 \in {swim_process(Begin(e, 0), e, net)} :
       \E S1 \in {swim_check_timeouts(S0)} :
       \E r \in TrioRands(e) :
       \E t \in {swim_select_random_node(S1, r)} :
          /\ TrioCommit(e, swim_gossip_round(S1, t, sync_counter[e]),
                        SelectSeq(net, LAMBDA m : m.to # e))
          /\ sync_counter' = [sync_counter EXCEPT ![e] =
                                 IF t = 0 THEN @
                                 ELSE IF @ + 1 >= SYNC_EVERY THEN 0
                                 ELSE @ + 1]
    /\ wake' = [wake EXCEPT ![e] = now + inst[e].swim.gossip_interval_ms]
    /\ UNCHANGED <<mgr, trial, now, crashed, observed, silenced, calls>>

\* The clock moves on by a gossip interval once every worker sleeps.
TrioAdvanceTime ==
    /\ \A e \in Engines : wake[e] > now
    /\ now + SWIM_DEFAULT_INTERVAL <= MaxTrioTime * 1000
    /\ now' = now + SWIM_DEFAULT_INTERVAL
    /\ UNCHANGED <<mgr, trial, inst, wake, crashed, net, sync_counter, observed,
                   silenced, calls>>

NextTrio ==
    \/ \E j \in JoinPlan : TrioJoin(j[1], j[2])
    \/ \E e \in Engines : TrioLoop(e)
    \/ TrioAdvanceTime

SpecTrio == InitTrio /\ [][NextTrio]_vars

\* C38: no engine holds another engine, all of which answer every Ping they
\* receive, as Dead.
C38_NoFalseDeath ==
    \A e \in Engines : \A f \in Engines \ {e} :
        StateAt(inst[e], f) # NODE_STATE_DEAD

----------------------------------------------------------------------------
(* The ids of the instances (SpecPorts) *)

\* C39: no two instances that the manager owns have the same id.
C39_UniqueInstanceIds ==
    \A i, j \in 1..Len(mgr.instances) :
        i # j => mgr.instances[i].id # mgr.instances[j].id

----------------------------------------------------------------------------
(* The Sync frame and the buffers that hold it (SpecFrame): one engine     *)
(* hears from ever more peers, so that its table grows, and sends Syncs.   *)

MaxHeld == 52       \* node records in the table, the engine's own among them
MaxSyncs == 2       \* Syncs sent

\* uint8_t buffer[4096] of swim_send_sync and of swim_process
SyncBufferSize == 4096
RecvBufferSize == 4096

\* What swim_send_sync puts into the header and hands to sendto() for a
\* frame of count update records.
swim_sync_layout(count) ==
    [node_count |-> count,
     payload_len |-> (count * UpdateSize) % UINT16_RANGE,
     total_len |-> SyncSize + count * UpdateSize]

InitFrame ==
    /\ now = 0
    /\ inst = [e \in Engines |->
                  IF e = Solo THEN swim_start(swim_init(e, e)) ELSE swim_init(e, e)]
    /\ wake = [e \in Engines |-> 0]
    /\ crashed = {}
    /\ net = <<>>
    /\ sync_counter = 0
    /\ observed = [e \in Engines |-> {e}]
    /\ silenced = {}
    /\ calls = [e \in Engines |-> 0]
    /\ mgr = node_manager_init("srv", 0, 0)
    /\ trial = [op |-> "init", syncs |-> 0, held |-> 1,
                layout |-> swim_sync_layout(0), sent |-> FALSE]

\* An Ack of a peer the engine does not hold yet arrives: the sender refresh
\* adds its record.
FrameHear ==
    /\ Solo \notin crashed
    /\ Len(inst[Solo].swim.nodes) < MaxHeld
    /\ \E id \in {"p" \o ToString(Len(inst[Solo].swim.nodes))} :
       \E T \in {swim_handle_message(Begin(Solo, 0), "b",
                    [type |-> SWIM_MSG_ACK, seq_num |-> 1, sender_id |-> id,
                     incarnation |-> 1, target_id |-> Solo, source_id |-> "",
                     updates |-> <<>>])} :
          /\ Commit(Solo, T)
          /\ trial' = [trial EXCEPT !.op = "hear", !.held = Len(T.swim.nodes)]
    /\ UNCHANGED <<now, wake, crashed, net, sync_counter, observed, silenced,
                   calls, mgr>>

\* swim_send_sync to the node heard of last. A record copied past the end
\* of the buffer is written over whatever follows it on the stack: the call
\* goes on to send the bytes from the buffer's address on, or the process
\* is ended (stack protector, fault).
FrameSync ==
    /\ Solo \notin crashed
    /\ trial.syncs < MaxSyncs
    /\ Len(inst[Solo].swim.nodes) > 1
    /\ \E T \in {swim_send_sync(Begin(Solo, 0), 1)} :
       \E layout \in {swim_sync_layout(Len(T.tx[1].frame.updates))} :
       \E ended \in IF layout.total_len > SyncBufferSize THEN BOOLEAN ELSE {FALSE} :
          /\ IF ended
             THEN /\ crashed' = crashed \cup {Solo}
                  /\ UNCHANGED inst
             ELSE /\ Commit(Solo, T)
                  /\ UNCHANGED crashed
          /\ trial' = [op |-> "sync", syncs |-> trial.syncs + 1,
                       held |-> Len(inst[Solo].swim.nodes),
                       layout |-> layout, sent |-> ~ended]
    /\ UNCHANGED <<now, wake, net, sync_counter, observed, silenced, calls, mgr>>

NextFrame == FrameHear \/ FrameSync

SpecFrame == InitFrame /\ [][NextFrame]_vars

\* C40: the Sync frame swim_send_sync builds is no longer than the buffer it
\* is built in nor than the buffer swim_process receives it into, and its
\* payload_len is the number of its records times the size of a record.
C40_SyncFitsBuffers ==
    trial.op = "sync" =>
        /\ trial.layout.total_len <= SyncBufferSize
        /\ trial.layout.total_len <= RecvBufferSize
        /\ trial.layout.payload_len = trial.layout.node_count * UpdateSize
====
